---- MODULE Spec2Model ----
(***************************************************************************)
(* Model of nx (audibleblink/nx): the single-port connection multiplexer   *)
(* (internal/mux/server.go over soheilhy/cmux), the TCP <-> unix-socket     *)
(* bridge (pkg/socket Manager.BridgeConnections) and the shell session      *)
(* orchestrator (internal/protocols ShellHandler.handleShellConnection),    *)
(* the listener-loop supervisor (internal/common HandleListenerLoop)        *)
(* with Server.Start, Server.Stop and the shutdown signal around it, the    *)
(* plugin manager's ExecuteMultiple, the files of the socket Manager, the   *)
(* stdio bridge.Session, the HTTP handler's singleConnListener and the      *)
(* script list of the configuration.                                       *)
(*                                                                         *)
(* The specifications share the variables below:                           *)
(*   SpecMuxBytes  one connection, byte-exact classification and replay     *)
(*   SpecMux       several connections, dispatch and the read deadline      *)
(*   SpecBridge / FairSpecBridge   BridgeConnections called directly        *)
(*   SpecBridgePeers               the same, with a second peer dialling    *)
(*   SpecShell  / FairSpecShell    handleShellConnection under the server   *)
(*   SpecLoop   / FairSpecLoop     HandleListenerLoop on a mock listener    *)
(*   SpecServer / FairSpecServer   Start, its three loops, Stop, the signal *)
(*   SpecShellCfg  handleShellConnection with or without its managers       *)
(*   SpecShutdown  executeServerCommand up to its return, signal stepwise   *)
(*   SpecPlugins   one call of ExecuteMultiple                              *)
(*   SpecSocket    GenerateTempFilename, CreateUnixListener, Close, Cleanup *)
(*   SpecSession   Session.Close and the two copy goroutines                *)
(*   SpecSingle / FairSpecSingle   singleConnListener: Accept and Close     *)
(*   SpecConfig    --auto and --exec of several servers, executePlugins     *)
(*   SpecListener  CreateUnixListener on paths of the caller's choice       *)
(***************************************************************************)
EXTENDS Integers, Sequences, FiniteSets, TLC

\* ------------------------------------------------------------------ bounds
NumConns == 2      \* connections accepted on the root listener (SpecMux)
MaxTime == 2       \* the clock stops here; accepts need room for a deadline
MaxRead == 3       \* largest buffer a handler passes to Read
NumBridges == 1    \* direct calls of BridgeConnections (SpecBridge)
NumSess == 1       \* shell connections handled (SpecShell)
NumOffered == 2    \* connections given to a listener loop (SpecLoop)
NumServed == 1     \* connections of the whole server (SpecServer)
MaxBackoffs == 2   \* failed Accepts a loop sleeps after
MaxScripts == 3    \* plugins named in one call of ExecuteMultiple
NumOps == 2        \* concurrent socket operations (SpecSocket)
NumNames == 2      \* names os.CreateTemp chooses from
MaxCleanups == 2   \* calls of Cleanup
NumClosers == 3    \* calls of Session.Close
NumCloseCalls == 2 \* calls of Close on a singleConnListener or its wrapper
MaxAccepts == 3    \* calls of Accept on a singleConnListener
NumServers == 2    \* servers compared, each with its configuration
MaxShellConns == 2 \* shell connections of one server (SpecConfig)

\* ------------------------------------------------------ program constants
ReadTimeout == 1   \* mux.SetReadTimeout(1 * time.Second)
AcceptBackoffMs == 100   \* time.Sleep(100 * time.Millisecond)

\* ------------------------------------------------------- sequence helpers
Min(a, b) == IF a < b THEN a ELSE b

Take(s, n) == SubSeq(s, 1, Min(n, Len(s)))

Drop(s, n) == SubSeq(s, Min(n, Len(s)) + 1, Len(s))

IsPrefix(p, s) == Len(p) <= Len(s) /\ SubSeq(s, 1, Len(p)) = p

\* --------------------------------------------------------------- matchers
\* cmux.PrefixMatcher("SSH-")
sshPrefixes == { <<"S","S","H","-">> }

\* httpMethods of Server.Start (standard HTTP and WebDAV)
httpMethods ==
  { <<"G","E","T">>, <<"P","O","S","T">>, <<"P","U","T">>,
    <<"D","E","L","E","T","E">>, <<"H","E","A","D">>,
    <<"O","P","T","I","O","N","S">>, <<"P","A","T","C","H">>,
    <<"P","R","O","P","F","I","N","D">>,
    <<"P","R","O","P","P","A","T","C","H">>, <<"M","K","C","O","L">>,
    <<"C","O","P","Y">>, <<"M","O","V","E">>, <<"L","O","C","K">>,
    <<"U","N","L","O","C","K">> }

\* the methods cmux.HTTP1Fast always matches, before the extra ones
defaultHTTPMethods ==
  { <<"O","P","T","I","O","N","S">>, <<"G","E","T">>, <<"H","E","A","D">>,
    <<"P","O","S","T">>, <<"P","U","T">>, <<"D","E","L","E","T","E">>,
    <<"T","R","A","C","E">>, <<"C","O","N","N","E","C","T">> }

\* a matcher of the methods listed in Server.Start alone
RegisteredOnly == httpMethods

\* cmux.HTTP1Fast(httpMethods...) = PrefixMatcher(defaults ++ httpMethods)
HTTP1Fast == defaultHTTPMethods \cup httpMethods

\* the matcher list of each sub-listener, in the order of the Match calls
Matchers == << sshPrefixes, HTTP1Fast >>

MatcherClass == << "SSH", "HTTP" >>

Classes == {"SSH", "HTTP", "SHELL"}

\* patriciaTree.maxDepth: the length of the longest string of the matcher
MaxLenOf(S) ==
  LET lens == { Len(x) : x \in S } \cup {0}
  IN CHOOSE n \in lens : \A m \in lens : m <= n

\* a matcher that wants the bytes to be exactly one of its strings
matchExact(S, b) == b \in S

\* patriciaTree.matchPrefix on the bytes ReadFull obtained
matchPrefix(S, b) == \E m \in S : IsPrefix(m, b)

VARIABLES
  now,        \* the clock, in units of the read timeout
  rootClosed, \* Server.Stop closed the root listener
  donec,      \* cmux closed its done channel (Serve returned)
  httpOn,     \* Server.Start started the HTTP handler loop
  sshOn,      \* Server.Start started the SSH handler loop
  cst,        \* per connection: position of its cmux serve goroutine
  payload,    \* per connection: everything its client will send
  unsent,     \* per connection: bytes the client has not written yet
  avail,      \* per connection: bytes written and not yet read by the server
  rdl,        \* per connection: read deadline on the socket (-1: none)
  midx,       \* per connection: index of the matcher being run
  mbuf,       \* per connection: bytes ReadFull gave the running matcher
  buf,        \* bufferedReader.buffer
  bufRead,    \* bufferedReader.bufferRead
  bufSize,    \* bufferedReader.bufferSize
  sniffing,   \* bufferedReader.sniffing
  class,      \* per connection: class chosen by the dispatcher ("none")
  delivered,  \* per connection: sub-listeners whose Accept returned it
  got,        \* per connection: bytes its handler has read
  acceptedAt, \* per connection: time of the root Accept
  classifiedAt, \* per connection: time the class was chosen (-1)
  peeked      \* per connection: bytes read from the socket while sniffing

muxVars == << now, rootClosed, donec, httpOn, sshOn, cst, payload, unsent,
              avail, rdl, midx, mbuf, buf, bufRead, bufSize, sniffing, class,
              delivered, got, acceptedAt, classifiedAt, peeked >>

VARIABLES
  bpc,        \* per session: position of BridgeConnections
  bsel,       \* per session: the select case BridgeConnections took
  bret,       \* per session: the value BridgeConnections returns
  ctxDone,    \* per session: the context passed to the bridge is done
  ln,         \* per session: the unix listener ("none", "open", "closed")
  sockFile,   \* per session: the socket file exists in the socket directory
  peer,       \* per session: the client of the socket ("none", "open", "closed")
  uclosed,    \* per session: unixConn.Close() was called
  tcpRemote,  \* per session: the remote end of the TCP connection is closed
  tclosed,    \* per session: conn.Close() was called on the TCP connection
  gpc,        \* per session and direction: position of the copy goroutine
  gerr,       \* per session and direction: the error io.Copy returned
  ch,         \* per session and direction: the error channel's buffer
  firstEv,    \* per session: the first event the bridge could return on
  hpc,        \* per session: position of handleShellConnection
  hret,       \* per session: what handleShellConnection returned
  winCmd,     \* per session: the pane was told to run the bridging client
  sig         \* the shutdown signal was handled

brVars == << bpc, bsel, bret, ctxDone, ln, sockFile, peer, uclosed,
             tcpRemote, tclosed, gpc, gerr, ch, firstEv >>

shVars == << hpc, hret, winCmd, sig >>

VARIABLES
  late,       \* per session: a later connection attempt to the socket path
  lpc,        \* per loop: position of HandleListenerLoop
  lret,       \* per loop: the error HandleListenerLoop returned
  lctx,       \* per loop: the context passed to the loop is done
  lclosed,    \* per loop: the listener given to the loop was closed
  lerr,       \* per loop: the error the listener's Accept is set to return
  laerr,      \* per loop: the error the last failed Accept returned
  nback,      \* per loop: backoff sleeps taken so far
  hst,        \* per connection: position of the goroutine of its handler
  hres,       \* per connection: what its handler returned
  calls,      \* per connection: invocations of the handler
  closers,    \* per connection: who called Close on it, in order
  spc,        \* position of Server.Start
  sret,       \* the error Server.Start returned
  stopAt      \* the time the root listener was closed (-1)

lpVars == << late, lpc, lret, lctx, lclosed, lerr, laerr, nback, hst, hres,
             calls, closers, spc, sret, stopAt >>

VARIABLES
  dirExists,  \* the socket directory of the Manager exists
  sigpc,      \* position of the signal goroutine of executeServerCommand
  cmdRet,     \* executeServerCommand has returned (the process exits)
  sockMgr,    \* the ShellHandler was given a socket manager
  tmuxMgr,    \* the ShellHandler was given a tmux manager
  envErr,     \* per session: the export line of setupEnvironment failed
  plugErr,    \* per session: ExecuteMultiple returned an error
  scripts,    \* ExecuteMultiple: the state of each plugin named, in order
  contOnErr,  \* ExecuteMultiple: its continueOnError argument
  byShell,    \* ExecuteMultiple: the caller is executePlugins
  ppc,        \* ExecuteMultiple: position
  pidx,       \* ExecuteMultiple: index of the plugin to execute next
  ran,        \* ExecuteMultiple: indices of the plugins Execute was called on
  pret,       \* ExecuteMultiple: the returned error
  fkind,      \* per name: what is at that path of the socket directory
  fowner,     \* per name: the operation that made the file at that path
  opc,        \* per socket operation: its position
  oname,      \* per socket operation: the path GenerateTempFilename chose
  cleanups,   \* calls of Cleanup made so far
  cleanRet,   \* what the last call of Cleanup returned
  oret,       \* per socket operation: the error its failed call returned
  hasConn,    \* bridge.Session: socketConn is not nil
  once,       \* bridge.Session: closeOnce is "new", "busy" or "done"
  sockCloses, \* bridge.Session: calls of socketConn.Close() made
  sctx,       \* bridge.Session: the context is cancelled
  panicked,   \* bridge.Session: a nil connection was used
  clpc,       \* per call of Session.Close: its position
  clret,      \* per call of Session.Close: what it returned
  clLate,     \* per call of Session.Close: it began after one had returned
  copypc,     \* per copy goroutine of the Session: its position
  accepted,   \* singleConnListener: the field accepted
  closedCh,   \* singleConnListener: the channel closed is "nil", "open", "closed"
  slPanic,    \* singleConnListener: close of a closed channel has panicked
  connCloses, \* singleConnListener: calls of Close on the wrapped connection
  apc,        \* the goroutine calling Accept: its position
  aret,       \* what the calls of Accept have returned, in order
  xkind,      \* per call of Close: on the "listener" or on the "wrapper"
  xpc,        \* per call of Close: its position
  xLate,      \* per call of Close: it began after Accept had returned the wrapper
  cfgAuto,    \* per server: Config.Auto, the flag --auto
  cfgExec,    \* per server: Config.Exec, the value of --exec
  passed      \* per server: the script lists executePlugins worked out, per connection

opVars == << fkind, fowner, opc, oname, cleanups, cleanRet, oret >>

smVars == << dirExists, opVars >>

plVars == << scripts, contOnErr, byShell, ppc, pidx, ran, pret >>

cmVars == << sigpc, cmdRet >>

hcVars == << sockMgr, tmuxMgr, envErr, plugErr >>

seVars == << hasConn, once, sockCloses, sctx, panicked, clpc, clret, clLate, copypc >>

slVars == << accepted, closedCh, slPanic, connCloses, apc, aret, xkind, xpc, xLate >>

cfVars == << cfgAuto, cfgExec, passed >>

restVars == << slVars, cfVars >>

newVars == << smVars, cmVars, hcVars, plVars, seVars, restVars >>

vars == << muxVars, brVars, shVars, lpVars, newVars >>

Sess == DOMAIN bpc

Dirs == {"t2u", "u2t"}

Conns == DOMAIN cst

NoDeadline == 0 - 1

\* -------------------------------------------------------------- test data
Silent == << >>

PayloadSSH == <<"S","S","H","-","2",".">>

PayloadGET == <<"G","E","T"," ","/">>

PayloadPROPFIND == <<"P","R","O","P","F","I","N","D"," ","/">>

PayloadCONNECT == <<"C","O","N","N","E","C","T"," ","x">>

PayloadGETTY == <<"G","E","T","T","Y">>

PayloadRaw == <<"#","!","r","a","w">>

PayloadSS == <<"S","S">>

\* payloads of the byte-exact specification
Payloads == { Silent, PayloadSSH, PayloadGET, PayloadPROPFIND,
              PayloadCONNECT, PayloadGETTY, PayloadRaw, PayloadSS }

\* payloads of the several-connection specification
SmallPayloads == { Silent, PayloadSSH, PayloadGET }

\* ------------------------------------------------------------------- Init
InitMuxOn(C) ==
  /\ now = 0
  /\ rootClosed = FALSE
  /\ donec = FALSE
  /\ httpOn \in BOOLEAN
  /\ sshOn \in BOOLEAN
  /\ cst = [c \in C |-> "none"]
  /\ payload = [c \in C |-> << >>]
  /\ unsent = [c \in C |-> << >>]
  /\ avail = [c \in C |-> << >>]
  /\ rdl = [c \in C |-> NoDeadline]
  /\ midx = [c \in C |-> 0]
  /\ mbuf = [c \in C |-> << >>]
  /\ buf = [c \in C |-> << >>]
  /\ bufRead = [c \in C |-> 0]
  /\ bufSize = [c \in C |-> 0]
  /\ sniffing = [c \in C |-> FALSE]
  /\ class = [c \in C |-> "none"]
  /\ delivered = [c \in C |-> {}]
  /\ got = [c \in C |-> << >>]
  /\ acceptedAt = [c \in C |-> 0]
  /\ classifiedAt = [c \in C |-> NoDeadline]
  /\ peeked = [c \in C |-> << >>]

\* the listener loops L, the connections C they handle and Server.Start,
\* before anything was accepted; T is {"root"} where the time of the close
\* of the root listener is recorded
InitLoopOn(L, C, T) ==
  /\ lpc = [l \in L |-> "accept"]
  /\ lret = [l \in L |-> "none"]
  /\ lctx = [l \in L |-> FALSE]
  /\ lclosed = [l \in L |-> FALSE]
  /\ lerr = [l \in L |-> "none"]
  /\ laerr = [l \in L |-> "none"]
  /\ nback = [l \in L |-> 0]
  /\ hst = [c \in C |-> "none"]
  /\ hres = [c \in C |-> "none"]
  /\ calls = [c \in C |-> 0]
  /\ closers = [c \in C |-> << >>]
  /\ spc = "serving"
  /\ sret = "none"
  /\ stopAt = [r \in T |-> NoDeadline]

\* ------------------------------------------------------------- dispatcher

\* bufferedReader.reset(snif)
reset(c, snif) ==
  /\ sniffing' = [sniffing EXCEPT ![c] = snif]
  /\ bufRead' = [bufRead EXCEPT ![c] = 0]
  /\ bufSize' = [bufSize EXCEPT ![c] = Len(buf'[c])]

\* cMux.serve, first part: the root Accept of Serve, newMuxConn,
\* SetReadDeadline and startSniffing for the first matcher
AcceptConn(c, p) ==
  /\ cst[c] = "none"
  /\ ~rootClosed
  /\ now + ReadTimeout <= MaxTime
  /\ cst' = [cst EXCEPT ![c] = "sniff"]
  /\ payload' = [payload EXCEPT ![c] = p]
  /\ unsent' = [unsent EXCEPT ![c] = p]
  /\ rdl' = [rdl EXCEPT ![c] = now + ReadTimeout]
  /\ acceptedAt' = [acceptedAt EXCEPT ![c] = now]
  /\ midx' = [midx EXCEPT ![c] = 1]
  /\ mbuf' = [mbuf EXCEPT ![c] = << >>]
  /\ buf' = buf
  /\ reset(c, TRUE)
  /\ UNCHANGED << now, rootClosed, donec, httpOn, sshOn, avail, class,
                  delivered, got, classifiedAt, peeked >>
  /\ UNCHANGED << brVars, shVars, lpVars >>
  /\ UNCHANGED newVars

\* the client writes the next k bytes of its payload
ClientSend(c, k) ==
  /\ cst[c] \notin {"none", "closed"}
  /\ k \in 1..Len(unsent[c])
  /\ avail' = [avail EXCEPT ![c] = @ \o Take(unsent[c], k)]
  /\ unsent' = [unsent EXCEPT ![c] = Drop(@, k)]
  /\ UNCHANGED << now, rootClosed, donec, httpOn, sshOn, cst, payload, rdl,
                  midx, mbuf, buf, bufRead, bufSize, sniffing, class,
                  delivered, got, acceptedAt, classifiedAt, peeked >>
  /\ UNCHANGED << brVars, shVars, lpVars >>
  /\ UNCHANGED newVars

\* a dispatcher that gives every matcher a fresh read timeout
FreshMatcherDeadline(c) == now + ReadTimeout

\* the deadline the dispatcher puts on the socket when a matcher fails and
\* the next one starts: serve sets it once, before the first matcher
NextMatcherDeadline(c) == rdl[c]

\* cMux.serve, the end of one matcher call on the bytes b it was given:
\* a match ends the sniffing and selects the sub-listener; a failure starts
\* the next matcher on the replayed stream; cmux.Any() is last and matches
\* without reading
MatcherDone(c, b) ==
  IF matchPrefix(Matchers[midx[c]], b)
  THEN /\ class' = [class EXCEPT ![c] = MatcherClass[midx[c]]]
       /\ cst' = [cst EXCEPT ![c] = "matched"]
       /\ rdl' = [rdl EXCEPT ![c] = NoDeadline]
       /\ classifiedAt' = [classifiedAt EXCEPT ![c] = now]
       /\ mbuf' = [mbuf EXCEPT ![c] = << >>]
       /\ reset(c, FALSE)
       /\ midx' = midx
  ELSE IF midx[c] < Len(Matchers)
  THEN /\ midx' = [midx EXCEPT ![c] = @ + 1]
       /\ mbuf' = [mbuf EXCEPT ![c] = << >>]
       /\ rdl' = [rdl EXCEPT ![c] = NextMatcherDeadline(c)]
       /\ reset(c, TRUE)
       /\ UNCHANGED << class, cst, classifiedAt >>
  ELSE /\ class' = [class EXCEPT ![c] = "SHELL"]
       /\ cst' = [cst EXCEPT ![c] = "matched"]
       /\ rdl' = [rdl EXCEPT ![c] = NoDeadline]
       /\ classifiedAt' = [classifiedAt EXCEPT ![c] = now]
       /\ mbuf' = [mbuf EXCEPT ![c] = << >>]
       /\ reset(c, FALSE)
       /\ midx' = midx

\* a reader that does not keep what it reads while sniffing
SniffDiscard(b, data) == b

\* what the buffer keeps of bytes read from the socket while sniffing
\* (bufferedReader.Read: s.buffer.Write(p[:sn]))
SniffAppend(b, data) == b \o data

\* one bufferedReader.Read call made by io.ReadFull inside matchPrefix:
\* sniffed bytes are replayed first, then the socket is read (and the bytes
\* kept in the buffer); ReadFull ends when maxDepth bytes are there
MatcherRead(c) ==
  /\ cst[c] = "sniff"
  /\ LET want == MaxLenOf(Matchers[midx[c]]) - Len(mbuf[c])
     IN IF bufSize[c] > bufRead[c]
        THEN LET bn == Min(want, bufSize[c] - bufRead[c])
                 b == mbuf[c] \o SubSeq(buf[c], bufRead[c] + 1, bufRead[c] + bn)
             IN /\ buf' = buf
                /\ UNCHANGED << avail, peeked >>
                /\ IF Len(b) = MaxLenOf(Matchers[midx[c]])
                   THEN MatcherDone(c, b)
                   ELSE /\ mbuf' = [mbuf EXCEPT ![c] = b]
                        /\ bufRead' = [bufRead EXCEPT ![c] = @ + bn]
                        /\ UNCHANGED << class, cst, rdl, classifiedAt, midx,
                                        sniffing, bufSize >>
        ELSE /\ now < rdl[c]
             /\ avail[c] # << >>
             /\ LET sn == Min(want, Len(avail[c]))
                    b == mbuf[c] \o Take(avail[c], sn)
                IN /\ avail' = [avail EXCEPT ![c] = Drop(@, sn)]
                   /\ buf' = [buf EXCEPT ![c] = SniffAppend(@, Take(avail[c], sn))]
                   /\ peeked' = [peeked EXCEPT ![c] = @ \o Take(avail[c], sn)]
                   /\ IF Len(b) = MaxLenOf(Matchers[midx[c]])
                      THEN MatcherDone(c, b)
                      ELSE /\ mbuf' = [mbuf EXCEPT ![c] = b]
                           /\ UNCHANGED << class, cst, rdl, classifiedAt,
                                           midx, sniffing, bufRead, bufSize >>
  /\ UNCHANGED << now, rootClosed, donec, httpOn, sshOn, payload, unsent,
                  delivered, got, acceptedAt >>
  /\ UNCHANGED << brVars, shVars, lpVars >>
  /\ UNCHANGED newVars

\* the socket read of a matcher fails with a timeout once the deadline has
\* passed (also when bytes are waiting); ReadFull returns what it has
MatcherTimeout(c) ==
  /\ cst[c] = "sniff"
  /\ bufSize[c] <= bufRead[c]
  /\ now >= rdl[c]
  /\ buf' = buf
  /\ MatcherDone(c, mbuf[c])
  /\ UNCHANGED << now, rootClosed, donec, httpOn, sshOn, payload, unsent,
                  avail, delivered, got, acceptedAt, peeked >>
  /\ UNCHANGED << brVars, shVars, lpVars >>
  /\ UNCHANGED newVars

\* a classifying goroutine that can take a step without waiting
Runnable(c) ==
  /\ cst[c] = "sniff"
  /\ \/ bufSize[c] > bufRead[c]
     \/ avail[c] # << >>
     \/ now >= rdl[c]

\* time passes while some connection waits for bytes; steps of the
\* dispatcher itself take no time
Tick ==
  /\ now < MaxTime
  /\ \E c \in Conns : cst[c] = "sniff"
  /\ \A c \in Conns : ~Runnable(c)
  /\ now' = now + 1
  /\ UNCHANGED << rootClosed, donec, httpOn, sshOn, cst, payload, unsent,
                  avail, rdl, midx, mbuf, buf, bufRead, bufSize, sniffing,
                  class, delivered, got, acceptedAt, classifiedAt, peeked >>
  /\ UNCHANGED << brVars, shVars, lpVars >>
  /\ UNCHANGED newVars

\* the handler loops Server.Start starts: HTTP when a handler is given, SSH
\* when enabled, shell always
LoopRunning(k) ==
  \/ k = "HTTP" /\ httpOn
  \/ k = "SSH" /\ sshOn
  \/ k = "SHELL"

\* a dispatcher that sends every connection to the catch-all sub-listener
CatchAllListener(c) == "SHELL"

\* the sub-listener a matched connection is sent to (sl.l.connc <- muc)
TargetListener(c) == class[c]

\* cMux.serve, last part: the send on the sub-listener's channel meets the
\* Accept of that sub-listener's handler loop
Deliver(c) ==
  /\ cst[c] = "matched"
  /\ LoopRunning(TargetListener(c))
  /\ cst' = [cst EXCEPT ![c] = "dispatched"]
  /\ delivered' = [delivered EXCEPT ![c] = @ \cup {TargetListener(c)}]
  /\ UNCHANGED << now, rootClosed, donec, httpOn, sshOn, payload, unsent,
                  avail, rdl, midx, mbuf, buf, bufRead, bufSize, sniffing,
                  class, got, acceptedAt, classifiedAt, peeked >>
  /\ UNCHANGED << brVars, shVars, lpVars >>
  /\ UNCHANGED newVars

\* cMux.serve, last part, other select case: the mux is done, the
\* connection is closed instead of being sent
DropOnDone(c) ==
  /\ cst[c] = "matched"
  /\ donec
  /\ cst' = [cst EXCEPT ![c] = "closed"]
  /\ UNCHANGED << now, rootClosed, donec, httpOn, sshOn, payload, unsent,
                  avail, rdl, midx, mbuf, buf, bufRead, bufSize, sniffing,
                  class, delivered, got, acceptedAt, classifiedAt, peeked >>
  /\ UNCHANGED << brVars, shVars, lpVars >>
  /\ UNCHANGED newVars

\* MuxConn.Read called by the handler that owns the connection, with a
\* buffer of n bytes: the sniffed bytes first, then the socket
HandlerRead(c, n) ==
  /\ cst[c] = "dispatched"
  /\ IF bufSize[c] > bufRead[c]
     THEN LET bn == Min(n, bufSize[c] - bufRead[c])
          IN /\ got' = [got EXCEPT ![c] =
                          @ \o SubSeq(buf[c], bufRead[c] + 1, bufRead[c] + bn)]
             /\ bufRead' = [bufRead EXCEPT ![c] = @ + bn]
             /\ UNCHANGED avail
     ELSE /\ avail[c] # << >>
          /\ got' = [got EXCEPT ![c] = @ \o Take(avail[c], n)]
          /\ avail' = [avail EXCEPT ![c] = Drop(@, n)]
          /\ UNCHANGED bufRead
  /\ UNCHANGED << now, rootClosed, donec, httpOn, sshOn, cst, payload,
                  unsent, rdl, midx, mbuf, buf, bufSize, sniffing, class,
                  delivered, acceptedAt, classifiedAt, peeked >>
  /\ UNCHANGED << brVars, shVars, lpVars >>
  /\ UNCHANGED newVars

\* Server.Stop: s.listener.Close()
Stop ==
  /\ ~rootClosed
  /\ rootClosed' = TRUE
  /\ stopAt' = [r \in DOMAIN stopAt |-> now]
  /\ UNCHANGED << now, donec, httpOn, sshOn, cst, payload, unsent, avail,
                  rdl, midx, mbuf, buf, bufRead, bufSize, sniffing, class,
                  delivered, got, acceptedAt, classifiedAt, peeked >>
  /\ UNCHANGED << brVars, shVars >>
  /\ UNCHANGED << late, lpc, lret, lctx, lclosed, lerr, laerr, nback, hst,
                  hres, calls, closers, spc, sret >>
  /\ UNCHANGED newVars

\* s.mux.Serve() returns on the Accept error of the closed root listener
\* and closes the done channel on its way out
ServeReturn ==
  /\ rootClosed
  /\ ~donec
  /\ donec' = TRUE
  /\ UNCHANGED << now, rootClosed, httpOn, sshOn, cst, payload, unsent,
                  avail, rdl, midx, mbuf, buf, bufRead, bufSize, sniffing,
                  class, delivered, got, acceptedAt, classifiedAt, peeked >>
  /\ UNCHANGED << brVars, shVars, lpVars >>
  /\ UNCHANGED newVars

\* ----------------------------------------------------------------- bridge
\* make(chan error, 1) for tcpToUnix and unixToTcp
ChanCap == 1

InitBridgeOn(B) ==
  /\ bpc = [s \in B |-> "idle"]
  /\ bsel = [s \in B |-> "none"]
  /\ bret = [s \in B |-> "none"]
  /\ ctxDone = [s \in B |-> FALSE]
  /\ ln = [s \in B |-> "none"]
  /\ sockFile = [s \in B |-> FALSE]
  /\ peer = [s \in B |-> "none"]
  /\ uclosed = [s \in B |-> FALSE]
  /\ tcpRemote = [s \in B |-> FALSE]
  /\ tclosed = [s \in B |-> FALSE]
  /\ gpc = [s \in B |-> [d \in Dirs |-> "none"]]
  /\ gerr = [s \in B |-> [d \in Dirs |-> "nil"]]
  /\ ch = [s \in B |-> [d \in Dirs |-> << >>]]
  /\ firstEv = [s \in B |-> "none"]
  /\ late = [s \in B |-> "none"]

\* the shell handler with or without its managers, before any connection;
\* the signal goroutine waits for a signal
InitHandlerOn(B, sm, tm) ==
  /\ hpc = [s \in B |-> "idle"]
  /\ hret = [s \in B |-> "none"]
  /\ winCmd = [s \in B |-> FALSE]
  /\ sig = FALSE
  /\ sockMgr = sm
  /\ tmuxMgr = tm
  /\ envErr = [s \in B |-> FALSE]
  /\ plugErr = [s \in B |-> FALSE]
  /\ sigpc = "wait"
  /\ cmdRet = FALSE

\* socket.NewManager: os.MkdirAll(socketDir)
InitSocketOn(P) ==
  /\ dirExists = TRUE
  /\ fkind = [n \in 1..NumNames |-> "none"]
  /\ fowner = [n \in 1..NumNames |-> 0]
  /\ opc = [p \in P |-> "start"]
  /\ oname = [p \in P |-> 0]
  /\ cleanups = 0
  /\ cleanRet = "none"
  /\ oret = [p \in P |-> "none"]

\* no call of ExecuteMultiple is followed
InitPluginsOff ==
  /\ scripts = << >>
  /\ contOnErr = FALSE
  /\ byShell = FALSE
  /\ ppc = "off"
  /\ pidx = 0
  /\ ran = << >>
  /\ pret = "none"

\* a Session with its socketConn or without, its copy goroutines started
\* by Start or not, and the calls of Close in K
InitSessionOn(K, c, started) ==
  /\ hasConn = c
  /\ once = "new"
  /\ sockCloses = 0
  /\ sctx = FALSE
  /\ panicked = FALSE
  /\ clpc = [k \in K |-> "idle"]
  /\ clret = [k \in K |-> "none"]
  /\ clLate = [k \in K |-> FALSE]
  /\ copypc = [g \in {"stdin", "stdout"} |-> IF started THEN "copy" ELSE "off"]

InitSessionOff == InitSessionOn({}, FALSE, FALSE)

\* a singleConnListener as Handle makes it, &singleConnListener{conn: conn},
\* one goroutine calling Accept and the calls of Close in K
InitSingleOn(K) ==
  /\ accepted = FALSE
  /\ closedCh = "nil"
  /\ slPanic = FALSE
  /\ connCloses = 0
  /\ apc = "idle"
  /\ aret = << >>
  /\ xkind \in [K -> {"listener", "wrapper"}]
  /\ xpc = [k \in K |-> "idle"]
  /\ xLate = [k \in K |-> FALSE]

\* values of --exec
ExecStrings == { "", "auto", "a,b", "b, a", ",a,", " , ", "auto,a" }

\* the servers in V, each with a configuration of its own
InitConfigOn(V) ==
  /\ cfgAuto \in [V -> BOOLEAN]
  /\ cfgExec \in [V -> ExecStrings]
  /\ passed = [v \in V |-> << >>]

InitRestOff == InitSingleOn({}) /\ InitConfigOn({})

\* the handler as executeServerCommand builds it: both managers given
InitShellOn(B) ==
  /\ InitHandlerOn(B, TRUE, TRUE)
  /\ InitSocketOn({})
  /\ InitPluginsOff
  /\ InitSessionOff
  /\ InitRestOff

\* strings.Contains
Contains(str, sub) ==
  \E i \in 1..(Len(str) - Len(sub) + 1) : SubSeq(str, i, i + Len(sub) - 1) = sub

\* error texts of the net package and of the operating system
ErrClosedConn == "use of closed network connection"

ErrTooManyFiles == "too many open files"

ErrBrokenPipe == "broken pipe"

\* the error Accept fails with, by cause
AcceptCause(cause) == IF cause = "closed" THEN ErrClosedConn ELSE ErrTooManyFiles

AcceptFailedText == "failed to accept unix connection"

\* an accept failure passed on as it came
UnwrappedError(msg) == msg

\* fmt.Errorf("failed to accept unix connection: %w", err)
AcceptError(msg) == AcceptFailedText \o ": " \o msg

\* Accept has returned a peer and the copy goroutines were started
Accepted(s) == gpc[s]["t2u"] # "none"

\* a listener the bridge leaves as it found it
NoDeferredClose(l) == l

\* defer unixListener.Close()
DeferredListenerClose(l) == "closed"

\* the return of BridgeConnections with value v: the deferred closes run;
\* closing a unix listener removes its socket file
Returns(s, v, afterAccept) ==
  /\ bpc' = [bpc EXCEPT ![s] = "returned"]
  /\ bret' = [bret EXCEPT ![s] = v]
  /\ ln' = [ln EXCEPT ![s] = DeferredListenerClose(@)]
  /\ sockFile' = [sockFile EXCEPT ![s] = IF ln'[s] = "closed" THEN FALSE ELSE @]
  /\ uclosed' = [uclosed EXCEPT ![s] = @ \/ afterAccept]

\* the context of the bridge becomes done: a bridge waiting in its select
\* is woken on the ctx.Done() case
cancel(s) ==
  /\ ctxDone' = [ctxDone EXCEPT ![s] = TRUE]
  /\ firstEv' = [firstEv EXCEPT ![s] =
                   IF @ = "none" /\ ~ctxDone[s] THEN "ctx" ELSE @]
  /\ IF bpc[s] = "parked" /\ ~ctxDone[s]
     THEN /\ bpc' = [bpc EXCEPT ![s] = "woken"]
          /\ bsel' = [bsel EXCEPT ![s] = "ctx"]
          /\ bret' = [bret EXCEPT ![s] = "ctxErr"]
     ELSE UNCHANGED << bpc, bsel, bret >>

\* a caller creates a listener (closing it at once when preClosed) and
\* calls BridgeConnections with its own context
BridgeCall(s, preClosed) ==
  /\ bpc[s] = "idle"
  /\ hpc[s] = "idle"
  /\ bpc' = [bpc EXCEPT ![s] = "accept"]
  /\ ln' = [ln EXCEPT ![s] = IF preClosed THEN "closed" ELSE "open"]
  /\ sockFile' = [sockFile EXCEPT ![s] = ~preClosed]
  /\ UNCHANGED << bsel, bret, ctxDone, peer, uclosed, tcpRemote, tclosed,
                  gpc, gerr, ch, firstEv >>
  /\ UNCHANGED << muxVars, shVars, lpVars >>
  /\ UNCHANGED newVars

\* the caller cancels the context, or its deadline expires
CancelCtx(s) ==
  /\ bpc[s] # "idle"
  /\ ~ctxDone[s]
  /\ cancel(s)
  /\ UNCHANGED << ln, sockFile, peer, uclosed, tcpRemote, tclosed, gpc,
                  gerr, ch >>
  /\ UNCHANGED << muxVars, shVars, lpVars >>
  /\ UNCHANGED newVars

\* a client connects to the socket path
Dial(s) ==
  /\ ln[s] = "open"
  /\ sockFile[s]
  /\ peer[s] = "none"
  /\ peer' = [peer EXCEPT ![s] = "open"]
  /\ UNCHANGED << bpc, bsel, bret, ctxDone, ln, sockFile, uclosed,
                  tcpRemote, tclosed, gpc, gerr, ch, firstEv >>
  /\ UNCHANGED << muxVars, shVars, lpVars >>
  /\ UNCHANGED newVars

\* the client of the socket closes its end
PeerClose(s) ==
  /\ peer[s] = "open"
  /\ peer' = [peer EXCEPT ![s] = "closed"]
  /\ UNCHANGED << bpc, bsel, bret, ctxDone, ln, sockFile, uclosed,
                  tcpRemote, tclosed, gpc, gerr, ch, firstEv >>
  /\ UNCHANGED << muxVars, shVars, lpVars >>
  /\ UNCHANGED newVars

\* the remote end of the TCP connection closes
RemoteClose(s) ==
  /\ bpc[s] # "idle" \/ hpc[s] # "idle"
  /\ ~tcpRemote[s]
  /\ tcpRemote' = [tcpRemote EXCEPT ![s] = TRUE]
  /\ UNCHANGED << bpc, bsel, bret, ctxDone, ln, sockFile, peer, uclosed,
                  tclosed, gpc, gerr, ch, firstEv >>
  /\ UNCHANGED << muxVars, shVars, lpVars >>
  /\ UNCHANGED newVars

\* the caller of BridgeConnections closes the TCP connection after the
\* return
CallerCloseTcp(s) ==
  /\ bpc[s] = "returned"
  /\ ~tclosed[s]
  /\ tclosed' = [tclosed EXCEPT ![s] = TRUE]
  /\ UNCHANGED << bpc, bsel, bret, ctxDone, ln, sockFile, peer, uclosed,
                  tcpRemote, gpc, gerr, ch, firstEv >>
  /\ UNCHANGED << muxVars, shVars, lpVars >>
  /\ UNCHANGED newVars

\* a later client connects to the same socket path: the connection waits
\* in the backlog of a listener that is open, and is refused otherwise
LateDial(s) ==
  /\ peer[s] # "none"
  /\ late[s] = "none"
  /\ late' = [late EXCEPT ![s] =
                IF ln[s] = "open" /\ sockFile[s] THEN "queued" ELSE "refused"]
  /\ UNCHANGED << lpc, lret, lctx, lclosed, lerr, laerr, nback, hst, hres,
                  calls, closers, spc, sret, stopAt >>
  /\ UNCHANGED << muxVars, brVars, shVars >>
  /\ UNCHANGED newVars

\* a bridge that calls Accept again after each peer
AcceptAgain(s) == "accept"

\* where BridgeConnections goes after its one call of Accept
AfterAccept(s) == "select"

\* unixListener.Accept() returns the connection at the head of the
\* backlog: the first peer, whose two copy goroutines start; a later
\* connection only for a caller that asks again
BridgeAccept(s) ==
  /\ bpc[s] = "accept"
  /\ ln[s] = "open"
  /\ IF ~Accepted(s)
     THEN /\ peer[s] # "none"
          /\ gpc' = [gpc EXCEPT ![s] = [d \in Dirs |-> "copy"]]
          /\ late' = late
     ELSE /\ late[s] = "queued"
          /\ late' = [late EXCEPT ![s] = "accepted"]
          /\ gpc' = gpc
  /\ bpc' = [bpc EXCEPT ![s] = AfterAccept(s)]
  /\ UNCHANGED << bsel, bret, ctxDone, ln, sockFile, peer, uclosed,
                  tcpRemote, tclosed, gerr, ch, firstEv >>
  /\ UNCHANGED << lpc, lret, lctx, lclosed, lerr, laerr, nback, hst, hres,
                  calls, closers, spc, sret, stopAt >>
  /\ UNCHANGED << muxVars, shVars >>
  /\ UNCHANGED newVars

\* unixListener.Accept() fails, on a closed listener or with an error of
\* the operating system: "failed to accept unix connection"
BridgeAcceptFail(s, cause) ==
  /\ bpc[s] = "accept"
  /\ cause = "closed" => ln[s] = "closed"
  /\ cause = "oserr" => ln[s] = "open"
  /\ Returns(s, AcceptError(AcceptCause(cause)), FALSE)
  /\ UNCHANGED << bsel, ctxDone, peer, tcpRemote, tclosed, gpc, gerr, ch,
                  firstEv >>
  /\ UNCHANGED << muxVars, shVars, lpVars >>
  /\ UNCHANGED newVars

\* a select that does not look at the context
ReadyCopiesOnly(s) == { d \in Dirs : ch[s][d] # << >> }

\* the cases of the select that can proceed
Ready(s) ==
  { k \in Dirs \cup {"ctx"} :
      \/ k = "ctx" /\ ctxDone[s]
      \/ k \in Dirs /\ ch[s][k] # << >> }

\* the select of BridgeConnections: with cases ready it takes one of them
\* and returns; with none it waits
BridgeSelect(s) ==
  /\ bpc[s] = "select"
  /\ IF Ready(s) = {}
     THEN /\ bpc' = [bpc EXCEPT ![s] = "parked"]
          /\ UNCHANGED << bsel, bret, ln, sockFile, uclosed, ch >>
     ELSE \E k \in Ready(s) :
            /\ bsel' = [bsel EXCEPT ![s] = k]
            /\ IF k = "ctx"
               THEN /\ Returns(s, "ctxErr", TRUE)
                    /\ ch' = ch
               ELSE /\ Returns(s, Head(ch[s][k]), TRUE)
                    /\ ch' = [ch EXCEPT ![s][k] = Tail(@)]
  /\ UNCHANGED << ctxDone, peer, tcpRemote, tclosed, gpc, gerr, firstEv >>
  /\ UNCHANGED << muxVars, shVars, lpVars >>
  /\ UNCHANGED newVars

\* the waiting select was woken by an event and BridgeConnections returns
\* that event's value
BridgeReturn(s) ==
  /\ bpc[s] = "woken"
  /\ Returns(s, bret[s], TRUE)
  /\ UNCHANGED << bsel, ctxDone, peer, tcpRemote, tclosed, gpc, gerr, ch,
                  firstEv >>
  /\ UNCHANGED << muxVars, shVars, lpVars >>
  /\ UNCHANGED newVars

\* the connection a copy direction reads: closed by this side, or at EOF
SrcClosedHere(s, d) == IF d = "t2u" THEN tclosed[s] ELSE uclosed[s]

SrcAtEOF(s, d) == IF d = "t2u" THEN tcpRemote[s] ELSE peer[s] = "closed"

\* the connection a copy direction writes was closed by this side
DstClosedHere(s, d) == IF d = "t2u" THEN uclosed[s] ELSE tclosed[s]

\* the connection a copy direction writes can no longer take bytes
DstBroken(s, d) ==
  IF d = "t2u" THEN uclosed[s] \/ peer[s] = "closed"
  ELSE tclosed[s] \/ tcpRemote[s]

\* io.Copy returns because its Read ended: nil on EOF, an error on a
\* connection closed by this side
CopyReadEnd(s, d) ==
  /\ gpc[s][d] = "copy"
  /\ SrcClosedHere(s, d) \/ SrcAtEOF(s, d)
  /\ gpc' = [gpc EXCEPT ![s][d] = "send"]
  /\ gerr' = [gerr EXCEPT ![s][d] =
                IF SrcClosedHere(s, d) THEN ErrClosedConn ELSE "nil"]
  /\ UNCHANGED << bpc, bsel, bret, ctxDone, ln, sockFile, peer, uclosed,
                  tcpRemote, tclosed, ch, firstEv >>
  /\ UNCHANGED << muxVars, shVars, lpVars >>
  /\ UNCHANGED newVars

\* io.Copy returns because bytes arrived and its Write failed
CopyWriteFail(s, d) ==
  /\ gpc[s][d] = "copy"
  /\ ~SrcClosedHere(s, d)
  /\ ~SrcAtEOF(s, d)
  /\ DstBroken(s, d)
  /\ gpc' = [gpc EXCEPT ![s][d] = "send"]
  /\ gerr' = [gerr EXCEPT ![s][d] =
                IF DstClosedHere(s, d) THEN ErrClosedConn ELSE ErrBrokenPipe]
  /\ UNCHANGED << bpc, bsel, bret, ctxDone, ln, sockFile, peer, uclosed,
                  tcpRemote, tclosed, ch, firstEv >>
  /\ UNCHANGED << muxVars, shVars, lpVars >>
  /\ UNCHANGED newVars

\* a send on a channel without buffer: only a waiting receiver takes it
CanSendUnbuffered(s, d) == bpc[s] = "parked"

\* the send of a copy goroutine can proceed: a receiver waits in the
\* select, or the channel has room
CanSend(s, d) == bpc[s] = "parked" \/ Len(ch[s][d]) < ChanCap

\* tcpToUnix <- err / unixToTcp <- err: handed to a select that waits,
\* buffered otherwise
CopySend(s, d) ==
  /\ gpc[s][d] = "send"
  /\ CanSend(s, d)
  /\ gpc' = [gpc EXCEPT ![s][d] = "done"]
  /\ firstEv' = [firstEv EXCEPT ![s] = IF @ = "none" THEN d ELSE @]
  /\ IF bpc[s] = "parked"
     THEN /\ bpc' = [bpc EXCEPT ![s] = "woken"]
          /\ bsel' = [bsel EXCEPT ![s] = d]
          /\ bret' = [bret EXCEPT ![s] = gerr[s][d]]
          /\ ch' = ch
     ELSE /\ ch' = [ch EXCEPT ![s][d] = Append(@, gerr[s][d])]
          /\ UNCHANGED << bpc, bsel, bret >>
  /\ UNCHANGED << ctxDone, ln, sockFile, peer, uclosed, tcpRemote, tclosed,
                  gerr >>
  /\ UNCHANGED << muxVars, shVars, lpVars >>
  /\ UNCHANGED newVars

\* ---------------------------------------------------------- shell handler

\* handleShellConnection up to the start of the bridge: validateManagers,
\* createUnixSocket, which may fail, then the context and the goroutine
\* that runs BridgeConnections
ErrNoSocketManager ==
  "socket manager not initialized - shell functionality disabled"

ErrNoTmuxManager ==
  "tmux manager not initialized - shell functionality disabled"

\* a handler that does not look at its managers
NoValidation == "nil"

\* validateManagers: the socket manager first, then the tmux manager
validateManagers ==
  IF ~sockMgr THEN ErrNoSocketManager
  ELSE IF ~tmuxMgr THEN ErrNoTmuxManager
  ELSE "nil"

HandlerStart(s, ok) ==
  /\ hpc[s] = "idle"
  /\ bpc[s] = "idle"
  /\ ~sig
  /\ IF validateManagers # "nil"
     THEN /\ hpc' = [hpc EXCEPT ![s] = "returned"]
          /\ hret' = [hret EXCEPT ![s] = validateManagers]
          /\ UNCHANGED << ln, sockFile, bpc >>
     ELSE IF ok
     THEN /\ ln' = [ln EXCEPT ![s] = "open"]
          /\ sockFile' = [sockFile EXCEPT ![s] = TRUE]
          /\ bpc' = [bpc EXCEPT ![s] = "accept"]
          /\ hpc' = [hpc EXCEPT ![s] = "window"]
          /\ hret' = hret
     ELSE /\ hpc' = [hpc EXCEPT ![s] = "returned"]
          /\ hret' = [hret EXCEPT ![s] = "err"]
          /\ UNCHANGED << ln, sockFile, bpc >>
  /\ UNCHANGED << bsel, bret, ctxDone, peer, uclosed, tcpRemote, tclosed,
                  gpc, gerr, ch, firstEv, winCmd, sig >>
  /\ UNCHANGED << muxVars, lpVars >>
  /\ UNCHANGED newVars

\* createTmuxWindow: CreateWindow and ExecuteInWindow of the bridge
\* command; on failure handleShellConnection returns the error and its
\* deferred cancel() runs
\* a handler that may create the window before it has made the socket
WindowFirst(s) == hpc[s] \in {"idle", "window"}

\* createTmuxWindow is called after createUnixSocket returned the bound
\* listener and after the go statement of the bridge
SocketFirst(s) == hpc[s] = "window"

CreateTmuxWindow(s, ok) ==
  /\ SocketFirst(s)
  /\ IF ok
     THEN /\ winCmd' = [winCmd EXCEPT ![s] = TRUE]
          /\ hpc' = [hpc EXCEPT ![s] = "env"]
          /\ UNCHANGED << hret, ctxDone, firstEv, bpc, bsel, bret >>
     ELSE /\ hpc' = [hpc EXCEPT ![s] = "returned"]
          /\ hret' = [hret EXCEPT ![s] = "err"]
          /\ winCmd' = winCmd
          /\ cancel(s)
  /\ UNCHANGED << ln, sockFile, peer, uclosed, tcpRemote, tclosed, gpc,
                  gerr, ch, sig >>
  /\ UNCHANGED << muxVars, lpVars >>
  /\ UNCHANGED newVars

\* a handler that gives up when a step after the window fails
AbortsOnError(failed, next) == IF failed THEN "returned" ELSE next

\* the error of the export line is dropped (_ = ...) and the error of
\* ExecuteMultiple is logged: the handler goes on to its next step
GoesOn(failed, next) == next

\* setupEnvironment: the settle delay and the export line, which may fail
SetupEnvironment(s) ==
  /\ hpc[s] = "env"
  /\ \E failed \in BOOLEAN :
       /\ envErr' = [envErr EXCEPT ![s] = failed]
       /\ hpc' = [hpc EXCEPT ![s] = GoesOn(failed, "plugins")]
  /\ UNCHANGED << hret, winCmd, sig >>
  /\ UNCHANGED << muxVars, brVars, lpVars >>
  /\ UNCHANGED << smVars, cmVars, plVars, seVars, restVars, sockMgr, tmuxMgr, plugErr >>

\* executePlugins: ExecuteMultiple on the configured scripts, which may
\* return an error
ExecutePlugins(s) ==
  /\ hpc[s] = "plugins"
  /\ \E failed \in BOOLEAN :
       /\ plugErr' = [plugErr EXCEPT ![s] = failed]
       /\ hpc' = [hpc EXCEPT ![s] = GoesOn(failed, "wait")]
  /\ UNCHANGED << hret, winCmd, sig >>
  /\ UNCHANGED << muxVars, brVars, lpVars >>
  /\ UNCHANGED << smVars, cmVars, plVars, seVars, restVars, sockMgr, tmuxMgr, envErr >>

\* a handler that does not wait for its bridge
ReturnsAtOnce(s) == TRUE

\* <-bridgeDone can receive: the goroutine of the bridge has sent what
\* BridgeConnections returned
BridgeDone(s) == bpc[s] = "returned"

\* err = <-bridgeDone; return nil, and the deferred cancel() runs
HandlerWait(s) ==
  /\ hpc[s] = "wait"
  /\ BridgeDone(s)
  /\ hpc' = [hpc EXCEPT ![s] = "returned"]
  /\ hret' = [hret EXCEPT ![s] = "nil"]
  /\ cancel(s)
  /\ UNCHANGED << ln, sockFile, peer, uclosed, tcpRemote, tclosed, gpc,
                  gerr, ch, winCmd, sig >>
  /\ UNCHANGED << muxVars, lpVars >>
  /\ UNCHANGED newVars

\* HandleListenerLoop: defer conn.Close() after the handler returned
LoopClose(s) ==
  /\ hpc[s] = "returned"
  /\ ~tclosed[s]
  /\ tclosed' = [tclosed EXCEPT ![s] = TRUE]
  /\ UNCHANGED << bpc, bsel, bret, ctxDone, ln, sockFile, peer, uclosed,
                  tcpRemote, gpc, gerr, ch, firstEv >>
  /\ UNCHANGED << muxVars, shVars, lpVars >>
  /\ UNCHANGED newVars

\* the bridging client started in the pane connects to the socket
ShellDial(s) ==
  /\ winCmd[s]
  /\ Dial(s)

\* the context a shell bridge runs under is done when the root context is
\* cancelled: handleShellConnection derives it from context.Background()
RootCancelReaches(s) == FALSE

\* the signal goroutine of executeServerCommand: cancel() of the root
\* context, server.Stop(), socketManager.Cleanup()
Signal ==
  /\ ~sig
  /\ ~rootClosed
  /\ sig' = TRUE
  /\ lctx' = [l \in DOMAIN lctx |-> TRUE]
  /\ rootClosed' = TRUE
  /\ stopAt' = [r \in DOMAIN stopAt |-> now]
  /\ sockFile' = [s \in Sess |-> FALSE]
  /\ dirExists' = FALSE
  /\ sigpc' = "done"
  /\ IF \E s \in Sess : RootCancelReaches(s)
     THEN /\ ctxDone' = [s \in Sess |-> ctxDone[s] \/ RootCancelReaches(s)]
          /\ firstEv' = [s \in Sess |->
                           IF firstEv[s] = "none" /\ RootCancelReaches(s)
                           THEN "ctx" ELSE firstEv[s]]
          /\ bpc' = [s \in Sess |->
                       IF bpc[s] = "parked" /\ RootCancelReaches(s)
                       THEN "woken" ELSE bpc[s]]
          /\ bsel' = [s \in Sess |->
                        IF bpc[s] = "parked" /\ RootCancelReaches(s)
                        THEN "ctx" ELSE bsel[s]]
          /\ bret' = [s \in Sess |->
                        IF bpc[s] = "parked" /\ RootCancelReaches(s)
                        THEN "ctxErr" ELSE bret[s]]
     ELSE UNCHANGED << ctxDone, firstEv, bpc, bsel, bret >>
  /\ UNCHANGED << ln, peer, uclosed, tcpRemote, tclosed, gpc, gerr, ch >>
  /\ UNCHANGED << hpc, hret, winCmd >>
  /\ UNCHANGED << late, lpc, lret, lclosed, lerr, laerr, nback, hst, hres,
                  calls, closers, spc, sret >>
  /\ UNCHANGED << now, donec, httpOn, sshOn, cst, payload, unsent, avail,
                  rdl, midx, mbuf, buf, bufRead, bufSize, sniffing, class,
                  delivered, got, acceptedAt, classifiedAt, peeked >>
  /\ UNCHANGED << opVars, hcVars, seVars, restVars, plVars, cmdRet >>

\* the signal goroutine of executeServerCommand, statement by statement:
\* <-sigChan and cancel() of the root context
SignalCancel ==
  /\ sigpc = "wait"
  /\ sigpc' = "cancelled"
  /\ lctx' = [l \in DOMAIN lctx |-> TRUE]
  /\ UNCHANGED << late, lpc, lret, lclosed, lerr, laerr, nback, hst, hres,
                  calls, closers, spc, sret, stopAt >>
  /\ UNCHANGED << muxVars, brVars, shVars, smVars, hcVars, seVars, restVars, plVars, cmdRet >>

\* server.Stop(): the root listener is closed
SignalStop ==
  /\ sigpc = "cancelled"
  /\ sigpc' = "stopped"
  /\ rootClosed' = TRUE
  /\ stopAt' = [r \in DOMAIN stopAt |-> now]
  /\ UNCHANGED << now, donec, httpOn, sshOn, cst, payload, unsent, avail,
                  rdl, midx, mbuf, buf, bufRead, bufSize, sniffing, class,
                  delivered, got, acceptedAt, classifiedAt, peeked >>
  /\ UNCHANGED << late, lpc, lret, lctx, lclosed, lerr, laerr, nback, hst,
                  hres, calls, closers, spc, sret >>
  /\ UNCHANGED << brVars, shVars, smVars, hcVars, seVars, restVars, plVars, cmdRet >>

\* socketManager.Cleanup(): os.RemoveAll(m.socketDir) removes the
\* directory and the socket files in it
SignalCleanup ==
  /\ sigpc = "stopped"
  /\ sigpc' = "done"
  /\ sig' = TRUE
  /\ dirExists' = FALSE
  /\ sockFile' = [s \in Sess |-> FALSE]
  /\ UNCHANGED << bpc, bsel, bret, ctxDone, ln, peer, uclosed, tcpRemote,
                  tclosed, gpc, gerr, ch, firstEv >>
  /\ UNCHANGED << hpc, hret, winCmd >>
  /\ UNCHANGED << muxVars, lpVars, opVars, hcVars, seVars, restVars, plVars, cmdRet >>

\* server.Start has returned and executeServerCommand returns (or ends in
\* logerr.Fatal): the process exits and no goroutine runs any more
CommandReturn ==
  /\ spc = "returned"
  /\ ~cmdRet
  /\ cmdRet' = TRUE
  /\ UNCHANGED << muxVars, brVars, shVars, lpVars, smVars, hcVars, seVars, restVars, plVars,
                  sigpc >>

\* ----------------------------------------------------------- listener loop
Loops == DOMAIN lpc

\* context.Canceled
ErrCanceled == "context canceled"

\* an error text without the word closed
ErrMuxStopped == "mux: server stopped"

\* cmux.ErrServerClosed, what Accept of a sub-listener returns once the
\* mux is done
ErrServerClosed == "mux: server closed"

\* the error of a handler that fails
ErrHandler == "handler error"

\* a predicate that knows one text only
IsServerClosedText(err) == err = "server closed"

\* IsShutdownError
IsShutdownError(err) ==
  /\ err # "nil"
  /\ \/ Contains(err, "use of closed network connection")
     \/ Contains(err, "closed")
     \/ Contains(err, "server closed")

\* the loops of the tests run on a mockListener, the loops of the server
\* on the sub-listeners of the mux
MockListener(l) == l \notin Classes

\* a listener whose Accept never fails
NeverFails(l) == "none"

\* the error a call of Accept on the listener of loop l fails with
\* ("none": it does not fail): a mockListener when closed or set to fail,
\* a sub-listener when the mux is done
AcceptFailure(l) ==
  IF MockListener(l)
  THEN IF lclosed[l] THEN ErrClosedConn ELSE lerr[l]
  ELSE IF donec THEN ErrServerClosed ELSE "none"

\* a test hands a connection to the mockListener (acceptCh <- server)
Offer(l, c) ==
  /\ MockListener(l)
  /\ cst[c] = "none"
  /\ cst' = [cst EXCEPT ![c] = "matched"]
  /\ class' = [class EXCEPT ![c] = l]
  /\ UNCHANGED << now, rootClosed, donec, httpOn, sshOn, payload, unsent,
                  avail, rdl, midx, mbuf, buf, bufRead, bufSize, sniffing,
                  delivered, got, acceptedAt, classifiedAt, peeked >>
  /\ UNCHANGED << brVars, shVars, lpVars >>
  /\ UNCHANGED newVars

\* the caller cancels the context of the loop
LoopCancel(l) ==
  /\ ~lctx[l]
  /\ lctx' = [lctx EXCEPT ![l] = TRUE]
  /\ UNCHANGED << late, lpc, lret, lclosed, lerr, laerr, nback, hst, hres,
                  calls, closers, spc, sret, stopAt >>
  /\ UNCHANGED << muxVars, brVars, shVars >>
  /\ UNCHANGED newVars

\* mockListener.Close
ListenerClose(l) ==
  /\ MockListener(l)
  /\ ~lclosed[l]
  /\ lclosed' = [lclosed EXCEPT ![l] = TRUE]
  /\ UNCHANGED << late, lpc, lret, lctx, lerr, laerr, nback, hst, hres,
                  calls, closers, spc, sret, stopAt >>
  /\ UNCHANGED << muxVars, brVars, shVars >>
  /\ UNCHANGED newVars

\* the mockListener is set to fail its Accepts with e, or to stop failing
SetAcceptErr(l, e) ==
  /\ MockListener(l)
  /\ lerr[l] # e
  /\ lerr' = [lerr EXCEPT ![l] = e]
  /\ UNCHANGED << late, lpc, lret, lctx, lclosed, laerr, nback, hst, hres,
                  calls, closers, spc, sret, stopAt >>
  /\ UNCHANGED << muxVars, brVars, shVars >>
  /\ UNCHANGED newVars

\* a loop that handles one connection at a time
WaitsForHandlers(l) ==
  \A c \in Conns : delivered[c] = {l} => hst[c] = "closed"

\* go func(conn net.Conn) {...}(conn): the loop goes back to Accept
\* whatever the handlers it started are doing
AcceptsNext(l) == TRUE

\* listener.Accept() returns a connection and the loop starts the
\* goroutine of its handler
LoopAccept(l, c) ==
  /\ lpc[l] = "accept"
  /\ cst[c] = "matched"
  /\ TargetListener(c) = l
  /\ MockListener(l) => AcceptFailure(l) = "none"
  /\ AcceptsNext(l)
  /\ cst' = [cst EXCEPT ![c] = "dispatched"]
  /\ delivered' = [delivered EXCEPT ![c] = @ \cup {l}]
  /\ hst' = [hst EXCEPT ![c] = "spawned"]
  /\ UNCHANGED << now, rootClosed, donec, httpOn, sshOn, payload, unsent,
                  avail, rdl, midx, mbuf, buf, bufRead, bufSize, sniffing,
                  class, got, acceptedAt, classifiedAt, peeked >>
  /\ UNCHANGED << late, lpc, lret, lctx, lclosed, lerr, laerr, nback, hres,
                  calls, closers, spc, sret, stopAt >>
  /\ UNCHANGED << brVars, shVars >>
  /\ UNCHANGED newVars

\* a loop that looks at the error before it looks at the context
DecideShutdownFirst(done, err) ==
  IF IsShutdownError(err) THEN << "returned", err >>
  ELSE IF done THEN << "returned", ErrCanceled >>
  ELSE << "backoff", "none" >>

\* what the loop does with an error of Accept: return ctx.Err() when the
\* context is done, else return the error when it is a shutdown error,
\* else sleep and go on
Decide(done, err) ==
  IF done THEN << "returned", ErrCanceled >>
  ELSE IF IsShutdownError(err) THEN << "returned", err >>
  ELSE << "backoff", "none" >>

\* listener.Accept() returns an error
LoopAcceptError(l) ==
  /\ lpc[l] = "accept"
  /\ AcceptFailure(l) # "none"
  /\ LET d == Decide(lctx[l], AcceptFailure(l))
     IN /\ d[1] = "backoff" => nback[l] < MaxBackoffs * AcceptBackoffMs
        /\ lpc' = [lpc EXCEPT ![l] = d[1]]
        /\ lret' = [lret EXCEPT ![l] = d[2]]
  /\ laerr' = [laerr EXCEPT ![l] = AcceptFailure(l)]
  /\ UNCHANGED << late, lctx, lclosed, lerr, nback, hst, hres, calls,
                  closers, spc, sret, stopAt >>
  /\ UNCHANGED << muxVars, brVars, shVars >>
  /\ UNCHANGED newVars

\* time.Sleep(100 * time.Millisecond); continue
BackoffDone(l) ==
  /\ lpc[l] = "backoff"
  /\ lpc' = [lpc EXCEPT ![l] = "accept"]
  /\ nback' = [nback EXCEPT ![l] = @ + AcceptBackoffMs]
  /\ UNCHANGED << late, lret, lctx, lclosed, lerr, laerr, hst, hres, calls,
                  closers, spc, sret, stopAt >>
  /\ UNCHANGED << muxVars, brVars, shVars >>
  /\ UNCHANGED newVars

\* the goroutine of a connection calls handler(conn)
HandlerCall(c) ==
  /\ hst[c] = "spawned"
  /\ hst' = [hst EXCEPT ![c] = "running"]
  /\ calls' = [calls EXCEPT ![c] = @ + 1]
  /\ UNCHANGED << late, lpc, lret, lctx, lclosed, lerr, laerr, nback, hres,
                  closers, spc, sret, stopAt >>
  /\ UNCHANGED << muxVars, brVars, shVars >>
  /\ UNCHANGED newVars

\* a handler that never closes the connection it is given
HandlerNeverCloses(c) == {FALSE}

\* whether the handler of a connection has closed it when it returns: the
\* HTTP handler returns when the connection it gave to http.Server was
\* closed (connWrapper.Close), ssh.Server.HandleConn closes what it is
\* given, handleShellConnection closes nothing; a handler of a test may do
\* either
HandlerCloses(c) ==
  IF class[c] \in {"HTTP", "SSH"} THEN {TRUE}
  ELSE IF class[c] = "SHELL" THEN {FALSE}
  ELSE BOOLEAN

\* what the handler may return: nil from the HTTP handler (the io.EOF of
\* the single-connection listener is dropped) and from the SSH handler,
\* nil or an error from the others
HandlerResults(c) ==
  IF class[c] \in {"HTTP", "SSH"} THEN {"nil"} ELSE {"nil", ErrHandler}

\* a loop that ends when a handler fails
EndsOnHandlerError(l, res) == IF res = "nil" THEN lpc[l] ELSE "returned"

\* if err := handler(conn); err != nil { log.Error(...) }: the error of a
\* handler is logged and the loop is where it was
LoggedOnly(l, res) == lpc[l]

\* handler(conn) returns
HandlerReturn(c, res, closed) ==
  /\ hst[c] = "running"
  /\ res \in HandlerResults(c)
  /\ closed \in HandlerCloses(c)
  /\ hst' = [hst EXCEPT ![c] = "returned"]
  /\ hres' = [hres EXCEPT ![c] = res]
  /\ closers' = [closers EXCEPT ![c] =
                   IF closed THEN Append(@, "handler") ELSE @]
  /\ lpc' = [lpc EXCEPT ![class[c]] = LoggedOnly(class[c], res)]
  /\ UNCHANGED << late, lret, lctx, lclosed, lerr, laerr, nback, calls,
                  spc, sret, stopAt >>
  /\ UNCHANGED << muxVars, brVars, shVars >>
  /\ UNCHANGED newVars

\* a goroutine that leaves the connection to its handler
LeftToHandler(q) == q

\* defer conn.Close() of the goroutine
DeferredConnClose(q) == Append(q, "loop")

\* the goroutine of a connection ends: the deferred conn.Close() runs
ConnClose(c) ==
  /\ hst[c] = "returned"
  /\ hst' = [hst EXCEPT ![c] = "closed"]
  /\ closers' = [closers EXCEPT ![c] = DeferredConnClose(@)]
  /\ UNCHANGED << late, lpc, lret, lctx, lclosed, lerr, laerr, nback, hres,
                  calls, spc, sret, stopAt >>
  /\ UNCHANGED << muxVars, brVars, shVars >>
  /\ UNCHANGED newVars

\* logerr Logger.Wrap: the error with the context of the logger in front
Wrap(context, msg) == context \o ": " \o msg

\* the error of Accept on the closed root listener
ErrRootAccept == "accept tcp: " \o ErrClosedConn

\* s.mux.Serve() has closed the done channel and waited for the
\* goroutines of the connections it accepted; Start returns its error
StartReturn ==
  /\ spc = "serving"
  /\ donec
  /\ \A c \in Conns : cst[c] \notin {"sniff", "matched"}
  /\ spc' = "returned"
  /\ sret' = Wrap("Start", ErrRootAccept)
  /\ UNCHANGED << late, lpc, lret, lctx, lclosed, lerr, laerr, nback, hst,
                  hres, calls, closers, stopAt >>
  /\ UNCHANGED << muxVars, brVars, shVars >>
  /\ UNCHANGED newVars

\* how Server.Start logs the error a handler loop returned: the SSH loop
\* at debug level, the others at debug level for context.Canceled and as
\* an error otherwise
LoopLogLevel(l, err) ==
  IF l = "SSH" \/ err = ErrCanceled THEN "debug" ELSE "error"

\* executeServerCommand on the error of Start: fatal unless a shutdown
\* error
StartOutcome(err) == IF IsShutdownError(err) THEN "clean" ELSE "fatal"

\* --------------------------------------------------------- socket manager
Ops == DOMAIN opc

Names == DOMAIN fkind

\* os.CreateTemp(m.socketDir, "*.sock") opens with O_EXCL a random name
\* that no file of the directory has at that moment
FreeNames == { n \in Names : fkind[n] = "none" }

ErrNotExist == "no such file or directory"

ErrAddrInUse == "bind: address already in use"

\* fmt.Errorf("failed to create temp socket file: %w", err)
ErrCreateTemp(cause) == "failed to create temp socket file: " \o cause

\* an error handed on as it is
Unwrapped(cause) == cause

\* fmt.Errorf("failed to create unix listener: %w", err)
ErrCreateListener(cause) == "failed to create unix listener: " \o cause

\* the bind of net.Listen("unix", path): it needs the directory, and
\* nothing at the path
BindCause(n) ==
  IF ~dirExists THEN "bind: " \o ErrNotExist
  ELSE IF fkind[n] # "none" THEN ErrAddrInUse
  ELSE "nil"

\* GenerateTempFilename, first half: os.CreateTemp makes the placeholder;
\* it fails when the directory is gone or no name is free
CreateTemp(p) ==
  /\ opc[p] = "start"
  /\ IF dirExists /\ FreeNames # {}
     THEN \E n \in FreeNames :
            /\ fkind' = [fkind EXCEPT ![n] = "temp"]
            /\ fowner' = [fowner EXCEPT ![n] = p]
            /\ oname' = [oname EXCEPT ![p] = n]
            /\ opc' = [opc EXCEPT ![p] = "temp"]
            /\ UNCHANGED oret
     ELSE /\ opc' = [opc EXCEPT ![p] = "failed"]
          /\ oret' = [oret EXCEPT ![p] =
                       ErrCreateTemp(IF dirExists THEN "file exists" ELSE ErrNotExist)]
          /\ UNCHANGED << fkind, fowner, oname >>
  /\ UNCHANGED << dirExists, cleanups, cleanRet >>
  /\ UNCHANGED << muxVars, brVars, shVars, lpVars, cmVars, hcVars, seVars, restVars, plVars >>

\* os.Remove(path): a file, a socket or an empty directory at the path is
\* removed; a directory that is not empty stays, and so does nothing
Unlink(n) ==
  IF fkind[n] = "dir"
  THEN UNCHANGED << fkind, fowner >>
  ELSE /\ fkind' = [fkind EXCEPT ![n] = "none"]
       /\ fowner' = [fowner EXCEPT ![n] = 0]

\* GenerateTempFilename, second half: file.Close(), os.Remove(file.Name())
\* and the name is returned
RemoveTemp(p) ==
  /\ opc[p] = "temp"
  /\ Unlink(oname[p])
  /\ opc' = [opc EXCEPT ![p] = "named"]
  /\ UNCHANGED << dirExists, oname, cleanups, cleanRet, oret >>
  /\ UNCHANGED << muxVars, brVars, shVars, lpVars, cmVars, hcVars, seVars, restVars, plVars >>

\* CreateUnixListener, first half: os.Remove(socketPath)
RemoveExisting(p) ==
  /\ opc[p] = "named"
  /\ Unlink(oname[p])
  /\ opc' = [opc EXCEPT ![p] = "cleared"]
  /\ UNCHANGED << dirExists, oname, cleanups, cleanRet, oret >>
  /\ UNCHANGED << muxVars, brVars, shVars, lpVars, cmVars, hcVars, seVars, restVars, plVars >>

\* CreateUnixListener, second half: net.Listen("unix", socketPath) binds
\* the path, or fails when the path is taken or the directory is gone
Listen(p) ==
  /\ opc[p] = "cleared"
  /\ IF BindCause(oname[p]) = "nil"
     THEN /\ fkind' = [fkind EXCEPT ![oname[p]] = "sock"]
          /\ fowner' = [fowner EXCEPT ![oname[p]] = p]
          /\ opc' = [opc EXCEPT ![p] = "bound"]
          /\ oret' = [oret EXCEPT ![p] = "nil"]
     ELSE /\ opc' = [opc EXCEPT ![p] = "failed"]
          /\ oret' = [oret EXCEPT ![p] = ErrCreateListener(BindCause(oname[p]))]
          /\ UNCHANGED << fkind, fowner >>
  /\ UNCHANGED << dirExists, oname, cleanups, cleanRet >>
  /\ UNCHANGED << muxVars, brVars, shVars, lpVars, cmVars, hcVars, seVars, restVars, plVars >>

\* listener.Close() of a unix listener unlinks the path it was bound to
UnixListenerClose(p) ==
  /\ opc[p] = "bound"
  /\ Unlink(oname[p])
  /\ opc' = [opc EXCEPT ![p] = "closed"]
  /\ UNCHANGED << dirExists, oname, cleanups, cleanRet, oret >>
  /\ UNCHANGED << muxVars, brVars, shVars, lpVars, cmVars, hcVars, seVars, restVars, plVars >>

\* os.Remove of a path that does not exist is an error
RemoveResult(exists) == IF exists THEN "nil" ELSE ErrNotExist

\* os.RemoveAll returns nil when the path does not exist
RemoveAllResult(exists) == "nil"

\* Cleanup: os.RemoveAll(m.socketDir)
Cleanup ==
  /\ cleanups < MaxCleanups
  /\ cleanups' = cleanups + 1
  /\ cleanRet' = RemoveAllResult(dirExists)
  /\ dirExists' = FALSE
  /\ fkind' = [n \in Names |-> "none"]
  /\ fowner' = [n \in Names |-> 0]
  /\ UNCHANGED << opc, oname, oret >>
  /\ UNCHANGED << muxVars, brVars, shVars, lpVars, cmVars, hcVars, seVars, restVars, plVars >>

\* --------------------------------------------------------- bridge.Session
Closers == DOMAIN clpc

Copiers == DOMAIN copypc

\* a sync.Once that lets every caller run its function
OnceNeverDone == FALSE

\* sync.Once: Do calls nothing once a call of Do has completed
OnceDone == once = "done"

\* what socketConn.Close() may return
CloseResults == {"nil", "close error"}

\* `if s.socketConn != nil`
ConnNotNil == hasConn

\* s.socketConn.Close(); on a nil net.Conn the call panics
SocketConnClose ==
  IF hasConn
  THEN sockCloses' = sockCloses + 1 /\ UNCHANGED panicked
  ELSE panicked' = TRUE /\ UNCHANGED sockCloses

\* the function all three callers hand to closeOnce.Do
CloseFunc ==
  /\ IF ConnNotNil THEN SocketConnClose ELSE UNCHANGED << sockCloses, panicked >>
  /\ once' = "done"

\* Close is called: `if s.cancel != nil { s.cancel() }`
CloseCall(k) ==
  /\ clpc[k] = "idle"
  /\ sctx' = TRUE
  /\ clLate' = [clLate EXCEPT ![k] = \E j \in Closers : clpc[j] = "returned"]
  /\ clpc' = [clpc EXCEPT ![k] = "do"]
  /\ UNCHANGED << hasConn, once, sockCloses, panicked, clret, copypc >>
  /\ UNCHANGED << muxVars, brVars, shVars, lpVars, smVars, cmVars, hcVars, plVars, restVars >>

\* Close reaches s.closeOnce.Do: it waits while another caller runs the
\* function, returns closeErr = nil if the Once is done, and runs the
\* function otherwise
CloseOnceDo(k) ==
  /\ clpc[k] = "do"
  /\ once # "busy"
  /\ IF OnceDone
     THEN /\ clpc' = [clpc EXCEPT ![k] = "returned"]
          /\ clret' = [clret EXCEPT ![k] = "nil"]
          /\ UNCHANGED once
     ELSE /\ clpc' = [clpc EXCEPT ![k] = "func"]
          /\ once' = "busy"
          /\ UNCHANGED clret
  /\ UNCHANGED << hasConn, sockCloses, sctx, panicked, clLate, copypc >>
  /\ UNCHANGED << muxVars, brVars, shVars, lpVars, smVars, cmVars, hcVars, plVars, restVars >>

\* Close runs the function: closeErr = s.socketConn.Close(); return closeErr
CloseRun(k) ==
  /\ clpc[k] = "func"
  /\ CloseFunc
  /\ \E e \in CloseResults :
       clret' = [clret EXCEPT ![k] = IF ConnNotNil THEN e ELSE "nil"]
  /\ clpc' = [clpc EXCEPT ![k] = "returned"]
  /\ UNCHANGED << hasConn, sctx, clLate, copypc >>
  /\ UNCHANGED << muxVars, brVars, shVars, lpVars, smVars, cmVars, hcVars, plVars, restVars >>

\* copyStdinToSocket / copySocketToStdout: io.Copy returns and the error is
\* sent on errChan, which has room for both
CopyReturn(g) ==
  /\ copypc[g] = "copy"
  /\ copypc' = [copypc EXCEPT ![g] = "do"]
  /\ UNCHANGED << hasConn, once, sockCloses, sctx, panicked, clpc, clret, clLate >>
  /\ UNCHANGED << muxVars, brVars, shVars, lpVars, smVars, cmVars, hcVars, plVars, restVars >>

\* the deferred s.closeOnce.Do of a copy goroutine
CopyOnceDo(g) ==
  /\ copypc[g] = "do"
  /\ once # "busy"
  /\ IF OnceDone
     THEN copypc' = [copypc EXCEPT ![g] = "done"] /\ UNCHANGED once
     ELSE copypc' = [copypc EXCEPT ![g] = "func"] /\ once' = "busy"
  /\ UNCHANGED << hasConn, sockCloses, sctx, panicked, clpc, clret, clLate >>
  /\ UNCHANGED << muxVars, brVars, shVars, lpVars, smVars, cmVars, hcVars, plVars, restVars >>

\* the copy goroutine runs the function and ends
CopyRun(g) ==
  /\ copypc[g] = "func"
  /\ CloseFunc
  /\ copypc' = [copypc EXCEPT ![g] = "done"]
  /\ UNCHANGED << hasConn, sctx, clpc, clret, clLate >>
  /\ UNCHANGED << muxVars, brVars, shVars, lpVars, smVars, cmVars, hcVars, plVars, restVars >>

\* ----------------------------------------------------- singleConnListener
notSingle == << muxVars, brVars, shVars, lpVars, smVars, cmVars, hcVars, plVars, seVars, cfVars >>

CloseCalls == DOMAIN xpc

\* the wrapper exists once an Accept has returned it
WrapperOut == \E i \in DOMAIN aret : aret[i] = "conn"

\* a listener that hands out its connection at every Accept
NeverAccepted == FALSE

\* `if l.accepted`
AlreadyAccepted == accepted

\* Accept is called and reads l.accepted
AcceptCheck ==
  /\ ~slPanic
  /\ apc = "idle"
  /\ Len(aret) < MaxAccepts
  /\ apc' = IF AlreadyAccepted THEN "wait" ELSE "mark"
  /\ UNCHANGED << accepted, closedCh, slPanic, connCloses, aret, xkind, xpc, xLate >>
  /\ UNCHANGED notSingle

\* l.accepted = true
AcceptMark ==
  /\ ~slPanic
  /\ apc = "mark"
  /\ accepted' = TRUE
  /\ apc' = "make"
  /\ UNCHANGED << closedCh, slPanic, connCloses, aret, xkind, xpc, xLate >>
  /\ UNCHANGED notSingle

\* `if l.closed == nil { l.closed = make(chan struct{}) }` and the wrapper
\* is returned
AcceptMake ==
  /\ ~slPanic
  /\ apc = "make"
  /\ closedCh' = IF closedCh = "nil" THEN "open" ELSE closedCh
  /\ aret' = Append(aret, "conn")
  /\ apc' = "idle"
  /\ UNCHANGED << accepted, slPanic, connCloses, xkind, xpc, xLate >>
  /\ UNCHANGED notSingle

\* `<-l.closed` is over once the channel is closed (a nil channel blocks
\* for ever), and Accept returns the OpError that wraps io.EOF
AcceptWait ==
  /\ ~slPanic
  /\ apc = "wait"
  /\ closedCh = "closed"
  /\ aret' = Append(aret, "EOF")
  /\ apc' = "idle"
  /\ UNCHANGED << accepted, closedCh, slPanic, connCloses, xkind, xpc, xLate >>
  /\ UNCHANGED notSingle

\* where a call of Close goes once it is done with the channel: the
\* listener's Close still has `return l.conn.Close()` to do
AfterChan(k) == IF xkind[k] = "listener" THEN "connclose" ELSE "done"

\* connWrapper.Close begins: err := c.Conn.Close()
WrapperConnClose(k) ==
  /\ ~slPanic
  /\ xkind[k] = "wrapper"
  /\ xpc[k] = "idle"
  /\ WrapperOut
  /\ connCloses' = connCloses + 1
  /\ xLate' = [xLate EXCEPT ![k] = TRUE]
  /\ xpc' = [xpc EXCEPT ![k] = "nilcheck"]
  /\ UNCHANGED << accepted, closedCh, slPanic, apc, aret, xkind >>
  /\ UNCHANGED notSingle

\* `if l.closed != nil` of either Close; it is the first statement of the
\* listener's Close
NilCheck(k) ==
  /\ ~slPanic
  /\ \/ xpc[k] = "nilcheck" /\ UNCHANGED xLate
     \/ /\ xkind[k] = "listener"
        /\ xpc[k] = "idle"
        /\ xLate' = [xLate EXCEPT ![k] = WrapperOut]
  /\ xpc' = [xpc EXCEPT ![k] = IF closedCh = "nil" THEN AfterChan(k) ELSE "select"]
  /\ UNCHANGED << accepted, closedCh, slPanic, connCloses, apc, aret, xkind >>
  /\ UNCHANGED notSingle

\* `select { case <-l.closed: default: ... }`: the default branch is taken
\* when the channel is not closed at this moment
SelectClosed(k) ==
  /\ ~slPanic
  /\ xpc[k] = "select"
  /\ xpc' = [xpc EXCEPT ![k] = IF closedCh = "closed" THEN AfterChan(k) ELSE "closing"]
  /\ UNCHANGED << accepted, closedCh, slPanic, connCloses, apc, aret, xkind, xLate >>
  /\ UNCHANGED notSingle

\* close(l.closed) in the default branch; closing a closed channel panics
CloseChan(k) ==
  /\ ~slPanic
  /\ xpc[k] = "closing"
  /\ IF closedCh = "closed"
     THEN /\ slPanic' = TRUE
          /\ xpc' = [xpc EXCEPT ![k] = "panicked"]
          /\ UNCHANGED closedCh
     ELSE /\ closedCh' = "closed"
          /\ xpc' = [xpc EXCEPT ![k] = AfterChan(k)]
          /\ UNCHANGED slPanic
  /\ UNCHANGED << accepted, connCloses, apc, aret, xkind, xLate >>
  /\ UNCHANGED notSingle

\* `return l.conn.Close()` of the listener's Close
ListenerConnClose(k) ==
  /\ ~slPanic
  /\ xpc[k] = "connclose"
  /\ connCloses' = connCloses + 1
  /\ xpc' = [xpc EXCEPT ![k] = "done"]
  /\ UNCHANGED << accepted, closedCh, slPanic, apc, aret, xkind, xLate >>
  /\ UNCHANGED notSingle

\* ---------------------------------------------------------- configuration
Servers == DOMAIN cfgAuto

\* strings.Split(s, ",")
RECURSIVE SplitComma(_)
SplitComma(s) ==
  LET idx == { i \in 1..Len(s) : SubSeq(s, i, i) = "," }
  IN IF idx = {} THEN << s >>
     ELSE LET i == CHOOSE j \in idx : \A k \in idx : j <= k
          IN << SubSeq(s, 1, i - 1) >> \o SplitComma(SubSeq(s, i + 1, Len(s)))

RECURSIVE TrimLeft(_)
TrimLeft(s) ==
  IF s # "" /\ SubSeq(s, 1, 1) = " " THEN TrimLeft(SubSeq(s, 2, Len(s))) ELSE s

RECURSIVE TrimRight(_)
TrimRight(s) ==
  IF s # "" /\ SubSeq(s, Len(s), Len(s)) = " "
  THEN TrimRight(SubSeq(s, 1, Len(s) - 1)) ELSE s

\* strings.TrimSpace
TrimSpace(s) == TrimRight(TrimLeft(s))

\* the loop of GetExecScripts: trimmed fields, the empty ones left out
RECURSIVE NonEmptyTrimmed(_)
NonEmptyTrimmed(fields) ==
  IF fields = << >> THEN << >>
  ELSE (IF TrimSpace(Head(fields)) # "" THEN << TrimSpace(Head(fields)) >> ELSE << >>)
       \o NonEmptyTrimmed(Tail(fields))

\* Config.GetExecScripts; nil is the empty sequence
GetExecScripts(exec) ==
  IF exec = "" THEN << >> ELSE NonEmptyTrimmed(SplitComma(exec))

\* a legacy flag that stands for another script
LegacyScripts == << "tty" >>

\* `scripts = []string{"auto"}`
AutoScripts == << "auto" >>

\* the list executePlugins works out: GetExecScripts, replaced when
\* Config.Auto is set
ScriptsOf(auto, exec) == IF auto THEN AutoScripts ELSE GetExecScripts(exec)

\* executePlugins on one more shell connection of server v; the list is
\* passed to ExecuteMultiple when it is not empty
ExecutePluginsOf(v) ==
  /\ Len(passed[v]) < MaxShellConns
  /\ passed' = [passed EXCEPT ![v] = Append(@, ScriptsOf(cfgAuto[v], cfgExec[v]))]
  /\ UNCHANGED << cfgAuto, cfgExec >>
  /\ UNCHANGED << muxVars, brVars, shVars, lpVars, smVars, cmVars, hcVars, plVars, seVars, slVars >>

\* ---------------------------------------------------------------- plugins
\* what a plugin named in the call is on disk: a file whose commands all
\* succeed, a file with a command that fails in the window, a file that
\* exists but cannot be read, no file
PluginStates == {"ok", "cmdfail", "unreadable", "missing"}

\* the name of the i-th plugin of the list
PluginName(i) == "p" \o ToString(i)

\* fmt.Errorf("plugin '%s' not found", pluginName)
ErrPluginNotFound(name) == "plugin '" \o name \o "' not found"

\* the first name of the list that the validation loop finds missing
FirstMissing(list) ==
  CHOOSE i \in DOMAIN list :
    /\ list[i] = "missing"
    /\ \A j \in DOMAIN list : j < i => list[j] # "missing"

ErrPluginFailed == "plugin failed"

\* PluginExists: os.Stat of the plugin file succeeds
\* a plugin directory that has every file
AllExist(k) == TRUE

PluginExists(k) == k # "missing"

\* Execute: readPluginCommands fails for a file that is missing or cannot
\* be read; executeCommands logs a command that fails and returns nil
Execute(k) ==
  IF k \in {"unreadable", "missing"} THEN ErrPluginFailed ELSE "nil"

\* executePlugins calls ExecuteMultiple(scripts, window, false)
ShellContinueOnError == FALSE

\* ExecuteMultiple up to its second loop: nil for no names, an error
\* before anything ran when one of the named plugins does not exist
ExecuteMultipleValidate ==
  /\ ppc = "called"
  /\ IF Len(scripts) = 0
     THEN ppc' = "returned" /\ pret' = "nil" /\ pidx' = pidx
     ELSE IF \E i \in DOMAIN scripts : ~PluginExists(scripts[i])
     THEN /\ ppc' = "returned"
          /\ pret' = ErrPluginNotFound(PluginName(FirstMissing(scripts)))
          /\ pidx' = pidx
     ELSE ppc' = "run" /\ pidx' = 1 /\ pret' = pret
  /\ UNCHANGED << scripts, contOnErr, byShell, ran >>
  /\ UNCHANGED << muxVars, brVars, shVars, lpVars, smVars, cmVars, hcVars, seVars, restVars >>

\* one round of the second loop: Execute of the next plugin; its error
\* ends the call unless continueOnError
ExecuteMultipleStep ==
  /\ ppc = "run"
  /\ pidx <= Len(scripts)
  /\ ran' = Append(ran, pidx)
  /\ IF Execute(scripts[pidx]) # "nil" /\ ~contOnErr
     THEN ppc' = "returned" /\ pret' = Execute(scripts[pidx]) /\ pidx' = pidx
     ELSE pidx' = pidx + 1 /\ UNCHANGED << ppc, pret >>
  /\ UNCHANGED << scripts, contOnErr, byShell >>
  /\ UNCHANGED << muxVars, brVars, shVars, lpVars, smVars, cmVars, hcVars, seVars, restVars >>

\* the second loop is through: return nil
ExecuteMultipleReturn ==
  /\ ppc = "run"
  /\ pidx > Len(scripts)
  /\ ppc' = "returned"
  /\ pret' = "nil"
  /\ UNCHANGED << scripts, contOnErr, byShell, pidx, ran >>
  /\ UNCHANGED << muxVars, brVars, shVars, lpVars, smVars, cmVars, hcVars, seVars, restVars >>

\* ------------------------------------------------------- specifications
InitMuxBytes ==
  /\ InitMuxOn({1})
  /\ InitBridgeOn({})
  /\ InitShellOn({})
  /\ InitLoopOn({}, {}, {})

NextMuxBytes ==
  \/ \E c \in Conns, p \in Payloads : AcceptConn(c, p)
  \/ \E c \in Conns : \E k \in 1..Len(unsent[c]) : ClientSend(c, k)
  \/ \E c \in Conns : MatcherRead(c)
  \/ \E c \in Conns : MatcherTimeout(c)
  \/ Tick
  \/ \E c \in Conns : Deliver(c)
  \/ \E c \in Conns : DropOnDone(c)
  \/ \E c \in Conns, n \in 1..MaxRead : HandlerRead(c, n)
  \/ Stop
  \/ ServeReturn

SpecMuxBytes == InitMuxBytes /\ [][NextMuxBytes]_vars

InitMux ==
  /\ InitMuxOn(1..NumConns)
  /\ InitBridgeOn({})
  /\ InitShellOn({})
  /\ InitLoopOn({}, {}, {})

NextMux ==
  \/ \E c \in Conns, p \in SmallPayloads : AcceptConn(c, p)
  \/ \E c \in Conns : ClientSend(c, Len(unsent[c]))
  \/ \E c \in Conns : MatcherRead(c)
  \/ \E c \in Conns : MatcherTimeout(c)
  \/ Tick
  \/ \E c \in Conns : Deliver(c)
  \/ \E c \in Conns : DropOnDone(c)
  \/ Stop
  \/ ServeReturn

SpecMux == InitMux /\ [][NextMux]_vars

\* BridgeConnections called directly, as the tests of pkg/socket do
BridgeIds == 1..NumBridges

InitBridge ==
  /\ InitMuxOn({})
  /\ httpOn
  /\ sshOn
  /\ InitBridgeOn(BridgeIds)
  /\ InitShellOn(BridgeIds)
  /\ InitLoopOn({}, {}, {})

NextBridge ==
  \/ \E s \in BridgeIds, pre \in BOOLEAN : BridgeCall(s, pre)
  \/ \E s \in BridgeIds : CancelCtx(s)
  \/ \E s \in BridgeIds : Dial(s)
  \/ \E s \in BridgeIds : PeerClose(s)
  \/ \E s \in BridgeIds : RemoteClose(s)
  \/ \E s \in BridgeIds : CallerCloseTcp(s)
  \/ \E s \in BridgeIds : BridgeAccept(s)
  \/ \E s \in BridgeIds, cause \in {"closed", "oserr"} : BridgeAcceptFail(s, cause)
  \/ \E s \in BridgeIds : BridgeSelect(s)
  \/ \E s \in BridgeIds : BridgeReturn(s)
  \/ \E s \in BridgeIds, d \in Dirs : CopyReadEnd(s, d)
  \/ \E s \in BridgeIds, d \in Dirs : CopyWriteFail(s, d)
  \/ \E s \in BridgeIds, d \in Dirs : CopySend(s, d)

SpecBridge == InitBridge /\ [][NextBridge]_vars

\* BridgeConnections with clients that keep connecting to the socket path
NextBridgePeers ==
  \/ NextBridge
  \/ \E s \in BridgeIds : LateDial(s)

SpecBridgePeers == InitBridge /\ [][NextBridgePeers]_vars

\* the steps of the goroutine that runs BridgeConnections which depend on
\* nothing but the goroutine being scheduled
BridgeStep(s) ==
  \/ BridgeAccept(s)
  \/ BridgeAcceptFail(s, "closed")
  \/ BridgeSelect(s)
  \/ BridgeReturn(s)

\* likewise for a copy goroutine: a Read that has ended, and the send
CopyStep(s, d) == CopyReadEnd(s, d) \/ CopySend(s, d)

\* every goroutine of the bridge that can take a step eventually takes it;
\* the peers, the caller and the operating system owe nothing
FairBridgeOn(B) ==
  \A s \in B :
    /\ WF_vars(BridgeStep(s))
    /\ \A d \in Dirs : WF_vars(CopyStep(s, d))

FairSpecBridge == SpecBridge /\ FairBridgeOn(BridgeIds)

\* handleShellConnection run by the shell listener loop of the server
ShellIds == 1..NumSess

InitShell ==
  /\ InitMuxOn({})
  /\ httpOn
  /\ sshOn
  /\ InitBridgeOn(ShellIds)
  /\ InitShellOn(ShellIds)
  /\ InitLoopOn({}, {}, {})

NextShell ==
  \/ \E s \in ShellIds, ok \in BOOLEAN : HandlerStart(s, ok)
  \/ \E s \in ShellIds, ok \in BOOLEAN : CreateTmuxWindow(s, ok)
  \/ \E s \in ShellIds : SetupEnvironment(s)
  \/ \E s \in ShellIds : ExecutePlugins(s)
  \/ \E s \in ShellIds : HandlerWait(s)
  \/ \E s \in ShellIds : LoopClose(s)
  \/ \E s \in ShellIds : ShellDial(s)
  \/ \E s \in ShellIds : PeerClose(s)
  \/ \E s \in ShellIds : RemoteClose(s)
  \/ Signal
  \/ \E s \in ShellIds : BridgeAccept(s)
  \/ \E s \in ShellIds : BridgeAcceptFail(s, "oserr")
  \/ \E s \in ShellIds : BridgeSelect(s)
  \/ \E s \in ShellIds : BridgeReturn(s)
  \/ \E s \in ShellIds, d \in Dirs : CopyReadEnd(s, d)
  \/ \E s \in ShellIds, d \in Dirs : CopyWriteFail(s, d)
  \/ \E s \in ShellIds, d \in Dirs : CopySend(s, d)

SpecShell == InitShell /\ [][NextShell]_vars

\* the steps of the goroutine HandleListenerLoop starts for a connection
HandlerStep(s) ==
  \/ \E ok \in BOOLEAN : CreateTmuxWindow(s, ok)
  \/ SetupEnvironment(s)
  \/ ExecutePlugins(s)
  \/ HandlerWait(s)
  \/ LoopClose(s)

FairShellOn(B) == \A s \in B : WF_vars(HandlerStep(s))

FairSpecShell == SpecShell /\ FairBridgeOn(ShellIds) /\ FairShellOn(ShellIds)

\* handleShellConnection of a handler built with or without its managers,
\* as the tests of internal/protocols build it
InitShellCfg ==
  /\ InitMuxOn({})
  /\ httpOn
  /\ sshOn
  /\ InitBridgeOn(ShellIds)
  /\ \E sm, tm \in BOOLEAN : InitHandlerOn(ShellIds, sm, tm)
  /\ InitSocketOn({})
  /\ InitPluginsOff
  /\ InitSessionOff
  /\ InitRestOff
  /\ InitLoopOn({}, {}, {})

SpecShellCfg == InitShellCfg /\ [][NextShell]_vars

\* the Manager used by concurrent operations, each GenerateTempFilename,
\* CreateUnixListener and Close of the listener, as the tests of pkg/socket
\* and the shell sessions use it, and Cleanup
InitSocket ==
  /\ InitMuxOn({})
  /\ httpOn
  /\ sshOn
  /\ InitBridgeOn({})
  /\ InitHandlerOn({}, TRUE, TRUE)
  /\ InitSocketOn(1..NumOps)
  /\ InitPluginsOff
  /\ InitSessionOff
  /\ InitRestOff
  /\ InitLoopOn({}, {}, {})

NextSocket ==
  \/ \E p \in Ops : CreateTemp(p)
  \/ \E p \in Ops : RemoveTemp(p)
  \/ \E p \in Ops : RemoveExisting(p)
  \/ \E p \in Ops : Listen(p)
  \/ \E p \in Ops : UnixListenerClose(p)
  \/ Cleanup

SpecSocket == InitSocket /\ [][NextSocket]_vars

\* a Session as NewSession makes it, with Start called or not, or with a
\* nil socketConn as TestResourceCleanupVerification makes it, and
\* NumClosers calls of Close
InitSession ==
  /\ InitMuxOn({})
  /\ httpOn
  /\ sshOn
  /\ InitBridgeOn({})
  /\ InitHandlerOn({}, TRUE, TRUE)
  /\ InitSocketOn({})
  /\ InitPluginsOff
  /\ InitLoopOn({}, {}, {})
  /\ \E c, started \in BOOLEAN :
       /\ started => c
       /\ InitSessionOn(1..NumClosers, c, started)
  /\ InitRestOff

NextSession ==
  \/ \E k \in Closers : CloseCall(k)
  \/ \E k \in Closers : CloseOnceDo(k)
  \/ \E k \in Closers : CloseRun(k)
  \/ \E g \in Copiers : CopyReturn(g)
  \/ \E g \in Copiers : CopyOnceDo(g)
  \/ \E g \in Copiers : CopyRun(g)

SpecSession == InitSession /\ [][NextSession]_vars

\* one singleConnListener, the goroutine that calls Accept as
\* http.Server.Serve does, and NumCloseCalls calls of Close, each on the
\* listener or on the wrapper, by goroutines of their own
InitSingle ==
  /\ InitMuxOn({})
  /\ httpOn
  /\ sshOn
  /\ InitBridgeOn({})
  /\ InitHandlerOn({}, TRUE, TRUE)
  /\ InitSocketOn({})
  /\ InitPluginsOff
  /\ InitLoopOn({}, {}, {})
  /\ InitSessionOn({}, FALSE, FALSE)
  /\ InitSingleOn(1..NumCloseCalls)
  /\ InitConfigOn({})

AcceptStep == AcceptCheck \/ AcceptMark \/ AcceptMake \/ AcceptWait

NextSingle ==
  \/ AcceptCheck
  \/ AcceptMark
  \/ AcceptMake
  \/ AcceptWait
  \/ \E k \in CloseCalls : WrapperConnClose(k)
  \/ \E k \in CloseCalls : NilCheck(k)
  \/ \E k \in CloseCalls : SelectClosed(k)
  \/ \E k \in CloseCalls : CloseChan(k)
  \/ \E k \in CloseCalls : ListenerConnClose(k)

SpecSingle == InitSingle /\ [][NextSingle]_vars

FairSpecSingle == SpecSingle /\ WF_vars(AcceptStep)

\* NumServers servers started with any --auto and --exec, all their other
\* settings equal, each running executePlugins on its shell connections
InitConfig ==
  /\ InitMuxOn({})
  /\ httpOn
  /\ sshOn
  /\ InitBridgeOn({})
  /\ InitHandlerOn({}, TRUE, TRUE)
  /\ InitSocketOn({})
  /\ InitPluginsOff
  /\ InitLoopOn({}, {}, {})
  /\ InitSessionOn({}, FALSE, FALSE)
  /\ InitSingleOn({})
  /\ InitConfigOn(1..NumServers)

NextConfig == \E v \in Servers : ExecutePluginsOf(v)

SpecConfig == InitConfig /\ [][NextConfig]_vars

\* what a caller may find at a path: nothing, a regular file, a socket
\* left behind, or a directory that is not empty
PathKinds == {"none", "temp", "sock", "dir"}

\* CreateUnixListener called with paths of the caller's choice, as
\* TestManagerCreateUnixListener does, in a directory that exists or not
InitListener ==
  /\ InitMuxOn({})
  /\ httpOn
  /\ sshOn
  /\ InitBridgeOn({})
  /\ InitHandlerOn({}, TRUE, TRUE)
  /\ InitPluginsOff
  /\ InitLoopOn({}, {}, {})
  /\ InitSessionOff
  /\ InitRestOff
  /\ dirExists \in BOOLEAN
  /\ fkind \in [1..NumNames -> IF dirExists THEN PathKinds ELSE {"none"}]
  /\ fowner = [n \in 1..NumNames |-> 0]
  /\ opc = [p \in 1..NumOps |-> "named"]
  /\ oname \in [1..NumOps -> 1..NumNames]
  /\ oret = [p \in 1..NumOps |-> "none"]
  /\ cleanups = 0
  /\ cleanRet = "none"

NextListener ==
  \/ \E p \in Ops : RemoveExisting(p)
  \/ \E p \in Ops : Listen(p)
  \/ \E p \in Ops : UnixListenerClose(p)
  \/ Cleanup

SpecListener == InitListener /\ [][NextListener]_vars

\* sequences over S of length at most n
SeqsUpTo(S, n) == UNION { [1..k -> S] : k \in 0..n }

\* one call of ExecuteMultiple, by executePlugins or by a caller that
\* chooses continueOnError
InitPlugins ==
  /\ InitMuxOn({})
  /\ httpOn
  /\ sshOn
  /\ InitBridgeOn({})
  /\ InitHandlerOn({}, TRUE, TRUE)
  /\ InitSocketOn({})
  /\ InitSessionOff
  /\ InitRestOff
  /\ InitLoopOn({}, {}, {})
  /\ scripts \in SeqsUpTo(PluginStates, MaxScripts)
  /\ byShell \in BOOLEAN
  /\ contOnErr \in (IF byShell THEN {ShellContinueOnError} ELSE BOOLEAN)
  /\ ppc = "called"
  /\ pidx = 0
  /\ ran = << >>
  /\ pret = "none"

NextPlugins ==
  \/ ExecuteMultipleValidate
  \/ ExecuteMultipleStep
  \/ ExecuteMultipleReturn

SpecPlugins == InitPlugins /\ [][NextPlugins]_vars

\* executeServerCommand from the start of the server to its return: the
\* signal goroutine statement by statement, Start and the shell sessions
\* in flight
InitShutdown ==
  /\ InitMuxOn({})
  /\ httpOn
  /\ sshOn
  /\ InitBridgeOn(ShellIds)
  /\ InitShellOn(ShellIds)
  /\ InitLoopOn({}, {}, {"root"})

\* the process runs until executeServerCommand returns
Running == ~cmdRet

NextShutdown ==
  \/ Running /\ \E s \in ShellIds, ok \in BOOLEAN : HandlerStart(s, ok)
  \/ Running /\ \E s \in ShellIds, ok \in BOOLEAN : CreateTmuxWindow(s, ok)
  \/ Running /\ \E s \in ShellIds : SetupEnvironment(s)
  \/ Running /\ \E s \in ShellIds : ExecutePlugins(s)
  \/ Running /\ \E s \in ShellIds : HandlerWait(s)
  \/ Running /\ \E s \in ShellIds : LoopClose(s)
  \/ Running /\ \E s \in ShellIds : ShellDial(s)
  \/ Running /\ \E s \in ShellIds : PeerClose(s)
  \/ Running /\ \E s \in ShellIds : RemoteClose(s)
  \/ Running /\ \E s \in ShellIds : BridgeAccept(s)
  \/ Running /\ \E s \in ShellIds : BridgeAcceptFail(s, "oserr")
  \/ Running /\ \E s \in ShellIds : BridgeSelect(s)
  \/ Running /\ \E s \in ShellIds : BridgeReturn(s)
  \/ Running /\ \E s \in ShellIds, d \in Dirs : CopyReadEnd(s, d)
  \/ Running /\ \E s \in ShellIds, d \in Dirs : CopyWriteFail(s, d)
  \/ Running /\ \E s \in ShellIds, d \in Dirs : CopySend(s, d)
  \/ Running /\ SignalCancel
  \/ Running /\ SignalStop
  \/ Running /\ SignalCleanup
  \/ Running /\ ServeReturn
  \/ Running /\ StartReturn
  \/ Running /\ CommandReturn

SpecShutdown == InitShutdown /\ [][NextShutdown]_vars

\* ---------------------------------------------------------- claims C1..C4

\* C1: a connection is delivered to at most one sub-listener, the one of
\* its class; a dispatched connection has been delivered to exactly that
\* one; once chosen, the class and the delivery never change.
C1_DispatchedOnceToItsClass ==
  [][\A c \in Conns :
       /\ delivered'[c] \subseteq {class'[c]}
       /\ (cst'[c] = "dispatched" => delivered'[c] = {class'[c]})
       /\ (class[c] # "none" => class'[c] = class[c])
       /\ (delivered[c] # {} => delivered'[c] = delivered[c])]_vars

C1_Witness ==
  \E c, d \in Conns :
    /\ delivered[c] = {"SSH"}
    /\ delivered[d] = {"SHELL"}
    /\ payload[d] = Silent

\* the class the claim C2 gives a stream: SSH for "SSH-", HTTP for a request
\* line that starts with a registered method, SHELL for the rest
ClaimedClass(p) ==
  IF IsPrefix(<<"S","S","H","-">>, p) THEN "SSH"
  ELSE IF \E m \in httpMethods : IsPrefix(m \o <<" ">>, p) THEN "HTTP"
  ELSE "SHELL"

ClassOfPeeked(b) ==
  IF \E m \in sshPrefixes : IsPrefix(m, b) THEN "SSH"
  ELSE IF \E m \in defaultHTTPMethods \cup httpMethods : IsPrefix(m, b)
       THEN "HTTP"
  ELSE "SHELL"

C3_HandlerReadsWhatWasSent ==
  \A c \in Conns :
    cst[c] = "dispatched" =>
      got[c] \o SubSeq(buf[c], bufRead[c] + 1, bufSize[c])
             \o avail[c] \o unsent[c] = payload[c]

C3_Witness ==
  \E c \in Conns :
    /\ cst[c] = "dispatched"
    /\ got[c] = PayloadPROPFIND
    /\ peeked[c] # << >>

Occurred(s, k) == IF k = "ctx" THEN ctxDone[s] ELSE gpc[s][k] = "done"

ValueOf(s, k) == IF k = "ctx" THEN "ctxErr" ELSE gerr[s][k]

\* C5 as stated: after a peer was accepted, BridgeConnections returns on
\* the first of the events (context done, a copy result reported) and
\* with the value of that event.
C5_ReturnsFirstEvent ==
  \A s \in Sess :
    bpc[s] = "returned" /\ Accepted(s) =>
      bsel[s] = firstEv[s] /\ bret[s] = ValueOf(s, firstEv[s])

\* C5 amended: BridgeConnections waits in its select only while none of
\* the events has occurred; an event that occurs while it waits is the one
\* it returns on; whenever it returns after the accept, it returns on an
\* event that has occurred, with the value of that event (any one of them
\* when several occurred before it reached the select).
C5_ReturnsOnAnOccurredEvent ==
  /\ [](\A s \in BridgeIds :
          /\ bpc[s] = "parked" => firstEv[s] = "none"
          /\ bpc[s] \in {"woken", "returned"} /\ Accepted(s) =>
               /\ bsel[s] \in Dirs \cup {"ctx"}
               /\ Occurred(s, bsel[s])
               /\ bret[s] = ValueOf(s, bsel[s]))
  /\ [][\A s \in BridgeIds :
          bpc[s] = "parked" /\ firstEv'[s] # "none" =>
            /\ bpc'[s] = "woken"
            /\ bsel'[s] = firstEv'[s]]_vars

C5_Witness ==
  \E s \in Sess :
    /\ bpc[s] = "returned"
    /\ bsel[s] = "u2t"
    /\ bret[s] = "nil"
    /\ firstEv[s] = "u2t"
    /\ gpc[s]["t2u"] = "copy"
    /\ ~ctxDone[s]

\* C6: a bridge whose context is done while it waits, on an open listener,
\* for a peer that has not connected, returns (the claim: with the
\* context's error) without a peer having to connect.
C6_CancelBeforePeerReturns ==
  \A s \in BridgeIds :
    (ctxDone[s] /\ bpc[s] = "accept" /\ ln[s] = "open" /\ peer[s] = "none")
      ~> (bpc[s] = "returned" \/ peer[s] # "none")

\* C7: a shell session whose bridge is copying when the shutdown signal is
\* handled returns (the claim: because its bridge observes the cancelled
\* context and returns context.Canceled).
C7_SignalEndsSessions ==
  \A s \in ShellIds :
    (sig /\ bpc[s] = "parked" /\ hpc[s] # "returned")
      ~> (bpc[s] = "returned" /\ hpc[s] = "returned")

\* C8: whenever BridgeConnections has returned, the unix listener it was
\* given is closed (and its socket file is gone).
C8_ListenerClosedOnReturn ==
  \A s \in Sess : bpc[s] = "returned" => ln[s] = "closed" /\ ~sockFile[s]

C8_Witness ==
  \E s \in Sess :
    /\ bpc[s] = "returned"
    /\ bret[s] = "nil"
    /\ Accepted(s)
    /\ ln[s] = "closed"

\* C9: once handleShellConnection has returned after creating the socket,
\* the listener is eventually closed and the socket file removed.
C9_SocketDestroyedAfterSession ==
  \A s \in ShellIds :
    (hpc[s] = "returned" /\ ln[s] # "none")
      ~> (ln[s] = "closed" /\ ~sockFile[s])

\* C10: a copy goroutine that has its result never finds its channel
\* full, and once BridgeConnections has returned and both connections are
\* closed, both copy goroutines end.
C10_LoserTerminates ==
  /\ [](\A s \in BridgeIds : \A d \in Dirs :
          gpc[s][d] = "send" => bpc[s] = "parked" \/ Len(ch[s][d]) < ChanCap)
  /\ \A s \in BridgeIds :
       (bpc[s] = "returned" /\ Accepted(s) /\ tclosed[s] /\ uclosed[s])
         ~> (\A d \in Dirs : gpc[s][d] = "done")

C10_Witness ==
  \E s \in Sess :
    /\ bpc[s] = "returned"
    /\ bsel[s] = "t2u"
    /\ tclosed[s]
    /\ gpc[s]["u2t"] = "done"
    /\ ch[s]["u2t"] = << ErrClosedConn >>

\* HandleListenerLoop on a mockListener, as the tests of internal/common
\* run it
LoopIds == {"test"}

InitLoop ==
  /\ InitMuxOn(1..NumOffered)
  /\ httpOn
  /\ sshOn
  /\ InitBridgeOn({})
  /\ InitShellOn({})
  /\ InitLoopOn(LoopIds, 1..NumOffered, {})

\* the errors a test sets the mockListener to fail with
TestAcceptErrs == {"none", ErrTooManyFiles, ErrServerClosed}

NextLoop ==
  \/ \E l \in LoopIds, c \in Conns : Offer(l, c)
  \/ \E l \in LoopIds : LoopCancel(l)
  \/ \E l \in LoopIds : ListenerClose(l)
  \/ \E l \in LoopIds, e \in TestAcceptErrs : SetAcceptErr(l, e)
  \/ \E l \in LoopIds, c \in Conns : LoopAccept(l, c)
  \/ \E l \in LoopIds : LoopAcceptError(l)
  \/ \E l \in LoopIds : BackoffDone(l)
  \/ \E c \in Conns : HandlerCall(c)
  \/ \E c \in Conns, res \in {"nil", ErrHandler}, closed \in BOOLEAN :
       HandlerReturn(c, res, closed)
  \/ \E c \in Conns : ConnClose(c)

SpecLoop == InitLoop /\ [][NextLoop]_vars

\* the steps of the goroutine that runs HandleListenerLoop
LoopStep(l) ==
  \/ \E c \in Conns : LoopAccept(l, c)
  \/ LoopAcceptError(l)
  \/ BackoffDone(l)

\* the loop is scheduled when it can take a step; the handlers, the
\* clients and the caller owe nothing
FairSpecLoop == SpecLoop /\ \A l \in LoopIds : WF_vars(LoopStep(l))

\* the whole server: Server.Start with the loops it starts, the
\* dispatcher, Server.Stop and the shutdown signal
InitServer ==
  /\ InitMuxOn(1..NumServed)
  /\ InitBridgeOn({})
  /\ InitShellOn({})
  /\ InitLoopOn({k \in Classes : LoopRunning(k)}, 1..NumServed, {"root"})

NextServer ==
  \/ \E c \in Conns, p \in SmallPayloads : AcceptConn(c, p)
  \/ \E c \in Conns : ClientSend(c, Len(unsent[c]))
  \/ \E c \in Conns : MatcherRead(c)
  \/ \E c \in Conns : MatcherTimeout(c)
  \/ Tick
  \/ \E l \in Loops, c \in Conns : LoopAccept(l, c)
  \/ \E c \in Conns : DropOnDone(c)
  \/ \E l \in Loops : LoopAcceptError(l)
  \/ \E c \in Conns : HandlerCall(c)
  \/ \E c \in Conns, res \in {"nil", ErrHandler}, closed \in BOOLEAN :
       HandlerReturn(c, res, closed)
  \/ \E c \in Conns : ConnClose(c)
  \/ Stop
  \/ Signal
  \/ ServeReturn
  \/ StartReturn

SpecServer == InitServer /\ [][NextServer]_vars

\* the steps of the goroutine cmux runs for a connection
ServeStep(c) == MatcherRead(c) \/ MatcherTimeout(c) \/ DropOnDone(c)

\* Serve and Start, the goroutines of the connections, the loops and the
\* clock go on when they can; the clients and the handlers owe nothing
\* the steps of the loop Start runs on a sub-listener: an accept that
\* returns a connection or an error
ListenerStep(l) ==
  /\ l \in Loops
  /\ \/ \E c \in Conns : LoopAccept(l, c)
     \/ LoopAcceptError(l)

FairSpecServer ==
  /\ SpecServer
  /\ WF_vars(ServeReturn \/ StartReturn)
  /\ WF_vars(Tick)
  /\ \A c \in 1..NumServed : WF_vars(ServeStep(c))
  /\ \A l \in Classes : WF_vars(ListenerStep(l))

\* -------------------------------------------------------- claims C11..C20

\* C11: the listener of a session accepts at most one peer: a connection
\* made to the socket path after the first peer connected is never
\* accepted (it waits in the backlog or is refused), so it is never
\* bridged to the session's TCP connection.
C11_AtMostOnePeer ==
  \A s \in Sess :
    /\ late[s] # "accepted"
    /\ late[s] # "none" => peer[s] # "none"
    /\ Accepted(s) => bpc[s] # "accept"

C11_Witness ==
  \E s \in Sess :
    /\ bpc[s] = "parked"
    /\ late[s] = "queued"
    /\ peer[s] = "open"

\* C12: BridgeConnections returns an error with the text "failed to
\* accept unix connection" exactly when its Accept failed; then no copy
\* was started and the error ends with the cause; the value of a copy
\* that ended never has that text.
C12_AcceptFailureIsDistinct ==
  \A s \in Sess :
    /\ bpc[s] = "returned" =>
         /\ Contains(bret[s], AcceptFailedText) <=> ~Accepted(s)
         /\ ~Accepted(s) =>
              /\ \A d \in Dirs : gpc[s][d] = "none"
              /\ \E k \in {"closed", "oserr"} :
                   bret[s] = AcceptFailedText \o ": " \o AcceptCause(k)
    /\ \A d \in Dirs : ~Contains(gerr[s][d], AcceptFailedText)

C12_Witness ==
  \E s \in Sess :
    /\ bpc[s] = "returned"
    /\ ln[s] = "closed"
    /\ bret[s] = AcceptFailedText \o ": " \o ErrClosedConn
    /\ peer[s] = "none"

\* the components that have called Close on a connection: the mux for a
\* connection it dropped, the handler, the goroutine of the loop
ClosedBy(c) ==
  { closers[c][i] : i \in DOMAIN closers[c] }
    \cup (IF cst[c] = "closed" THEN {"mux"} ELSE {})

\* C13 as stated: no connection is ever closed by more than one
\* component.
C13_ClosedByOneOwner ==
  \A c \in DOMAIN closers : Cardinality(ClosedBy(c)) <= 1

\* C13 amended: a connection the mux dropped is closed by the mux alone; a
\* connection given to a loop is closed by the goroutine of the loop when
\* its handler has returned, once, and before that by the handler itself
\* on the HTTP and SSH paths (two components), by nobody on the shell path.
C13_ClosedByLoopAfterHandler ==
  \A c \in DOMAIN closers :
    /\ cst[c] = "closed" => closers[c] = << >>
    /\ hst[c] = "closed" =>
         closers[c] = IF class[c] = "SHELL" THEN << "loop" >>
                      ELSE << "handler", "loop" >>
    /\ hst[c] = "returned" =>
         closers[c] = IF class[c] = "SHELL" THEN << >> ELSE << "handler" >>
    /\ hst[c] \in {"none", "spawned", "running"} => closers[c] = << >>

C13_Witness ==
  \E c \in DOMAIN closers :
    /\ class[c] = "HTTP"
    /\ hst[c] = "closed"
    /\ closers[c] = << "handler", "loop" >>

\* C14: the goroutine of the loop closes a connection when, and only
\* when, its handler has returned: whatever the handler returned and
\* whether or not the handler closed the connection, the step after the
\* return is the Close of the loop, and no Close of the loop comes before.
C14_LoopClosesAfterHandler ==
  /\ [](\A c \in DOMAIN closers :
          /\ hst[c] = "closed" =>
               /\ closers[c] # << >>
               /\ closers[c][Len(closers[c])] = "loop"
               /\ Cardinality({i \in DOMAIN closers[c] :
                                  closers[c][i] = "loop"}) = 1
          /\ hst[c] # "closed" => "loop" \notin ClosedBy(c))
  /\ [][\A c \in DOMAIN closers :
          hst[c] = "returned" /\ hst'[c] # "returned" =>
            /\ hst'[c] = "closed"
            /\ closers'[c] = Append(closers[c], "loop")]_vars

C14_Witness ==
  \E c \in DOMAIN closers :
    /\ hst[c] = "closed"
    /\ hres[c] = ErrHandler
    /\ closers[c] = << "handler", "loop" >>

\* C15: when Accept fails, the loop returns ctx.Err() if the context is
\* done, whatever the error; else it returns the error if it has the
\* text of a shutdown; else it sleeps 100 ms and calls Accept again.
C15_AcceptErrorPriority ==
  [][\A l \in LoopIds :
       /\ lpc[l] = "accept" /\ lpc'[l] # "accept" =>
            /\ laerr'[l] # "none"
            /\ IF lctx[l]
               THEN lpc'[l] = "returned" /\ lret'[l] = ErrCanceled
               ELSE IF Contains(laerr'[l], "closed")
               THEN lpc'[l] = "returned" /\ lret'[l] = laerr'[l]
               ELSE lpc'[l] = "backoff" /\ lret'[l] = "none"
       /\ lpc[l] = "backoff" /\ lpc'[l] # "backoff" =>
            /\ lpc'[l] = "accept"
            /\ nback'[l] = nback[l] + AcceptBackoffMs]_vars

C15_Witness ==
  \E l \in Loops :
    /\ lpc[l] = "returned"
    /\ lret[l] = ErrCanceled
    /\ laerr[l] = ErrClosedConn
    /\ nback[l] = AcceptBackoffMs

\* C16: the handler is called once for each connection the loop accepted
\* and for no other; a handler that returns leaves the loop where it was;
\* a loop that has returned returned ctx.Err() on a done context or an
\* error with the text of a shutdown.
C16_HandlerErrorsDoNotStopLoop ==
  /\ [](\A c \in DOMAIN calls :
          /\ calls[c] = IF hst[c] \in {"running", "returned", "closed"}
                         THEN 1 ELSE 0
          /\ hst[c] # "none" <=> cst[c] = "dispatched")
  /\ [](\A l \in LoopIds :
          lpc[l] = "returned" =>
            \/ lctx[l] /\ lret[l] = ErrCanceled
            \/ Contains(lret[l], "closed"))
  /\ [][\A c \in DOMAIN calls : hst[c] = "running" /\ hst'[c] # "running"
          => lpc' = lpc]_vars

C16_Witness ==
  \E l \in Loops : \E c, d \in DOMAIN calls :
    /\ hst[c] = "closed"
    /\ hres[c] = ErrHandler
    /\ calls[c] = 1
    /\ cst[d] = "matched"
    /\ lpc[l] = "accept"
    /\ AcceptFailure(l) = "none"

\* C17: a connection given to the listener is accepted, unless the
\* listener fails or the loop has returned, whatever the handlers of the
\* connections accepted before are doing.
C17_BlockedHandlerDoesNotBlockAccept ==
  \A l \in LoopIds : \A c \in 1..NumOffered :
    (cst[c] = "matched" /\ class[c] = l)
      ~> (cst[c] = "dispatched" \/ lpc[l] = "returned"
          \/ AcceptFailure(l) # "none")

C17_Witness ==
  \E c, d \in DOMAIN hst :
    /\ c # d
    /\ hst[c] = "running"
    /\ hst[d] = "running"

\* C18 as stated: once the context of the loop is cancelled, the loop
\* returns.
C18_CancelStopsLoop ==
  \A l \in LoopIds : lctx[l] ~> (lpc[l] = "returned")

\* C18 amended: once the context is cancelled and the listener is closed,
\* the loop returns; a loop that returns on a cancelled context returns
\* ctx.Err().
C18_CancelAndCloseStopLoop ==
  /\ \A l \in LoopIds : (lctx[l] /\ lclosed[l]) ~> (lpc[l] = "returned")
  /\ [][\A l \in LoopIds :
          lctx[l] /\ lpc[l] # "returned" /\ lpc'[l] = "returned" =>
            lret'[l] = ErrCanceled]_vars

C18_Witness ==
  \E l \in Loops : \E c \in DOMAIN hst :
    /\ lctx[l]
    /\ lclosed[l]
    /\ lpc[l] = "returned"
    /\ lret[l] = ErrCanceled
    /\ hst[c] = "running"

\* C19: after the root listener is closed, Start returns an error no
\* later than one read timeout after the close, and every handler loop
\* returns.
C19_StopUnblocksEverything ==
  /\ [](rootClosed /\ spc = "serving" =>
          \A r \in DOMAIN stopAt : now <= stopAt[r] + ReadTimeout)
  /\ [](spc = "returned" => sret \notin {"none", "nil"})
  /\ rootClosed ~> (spc = "returned" /\ \A l \in Loops : lpc[l] = "returned")

C19_Witness ==
  /\ ~sig
  /\ spc = "returned"
  /\ \A l \in Loops : lpc[l] = "returned" /\ lret[l] = ErrServerClosed
  /\ \E c \in Conns : cst[c] = "closed" /\ now = acceptedAt[c] + ReadTimeout

\* C20: after the shutdown signal, the error Start returns is a shutdown
\* error for executeServerCommand (not fatal), and what each handler loop
\* returns is not logged as an error.
C20_SignalShutdownIsClean ==
  sig =>
    /\ spc = "returned" => StartOutcome(sret) = "clean"
    /\ \A l \in Loops :
         lpc[l] = "returned" => LoopLogLevel(l, lret[l]) = "debug"

C20_Witness ==
  /\ sig
  /\ spc = "returned"
  /\ \E l \in Loops :
       /\ l = "HTTP"
       /\ lpc[l] = "returned"
       /\ lret[l] = ErrCanceled
       /\ laerr[l] = ErrServerClosed

\* -------------------------------------------------------- claims C21..C30

\* C21 as stated: when executeServerCommand has returned after a shutdown
\* signal, the socket directory and every socket file in it are gone.
C21_CleanedUpBeforeReturn ==
  cmdRet => /\ ~dirExists
            /\ \A s \in Sess : ~sockFile[s]

\* C22: a handler whose window was created (steps 1 to 4 succeeded) has
\* returned only if its bridge has returned, and then it returned nil; the
\* loop has closed the TCP connection of such a session only if its bridge
\* has returned.
C22_HandlerWaitsForBridge ==
  \A s \in Sess :
    winCmd[s] =>
      /\ hpc[s] = "returned" => bpc[s] = "returned" /\ hret[s] = "nil"
      /\ tclosed[s] => bpc[s] = "returned"

C22_Witness ==
  \E s \in Sess :
    /\ winCmd[s]
    /\ hpc[s] = "returned"
    /\ hret[s] = "nil"
    /\ bret[s] = ErrBrokenPipe
    /\ tclosed[s]

C24_NilManagerFailsFast ==
  /\ [](~sockMgr \/ ~tmuxMgr =>
          \A s \in Sess :
            /\ ln[s] = "none" /\ ~sockFile[s] /\ bpc[s] = "idle"
            /\ ~winCmd[s]
            /\ hpc[s] \in {"idle", "returned"}
            /\ hpc[s] = "returned" =>
                 IF ~sockMgr
                 THEN Contains(hret[s], "socket manager not initialized")
                 ELSE Contains(hret[s], "tmux manager not initialized"))
  /\ [][~sockMgr \/ ~tmuxMgr =>
          \A s \in Sess :
            hpc'[s] # hpc[s] =>
              /\ \A t \in Sess \ {s} : hpc'[t] = hpc[t] /\ hret'[t] = hret[t]
              /\ UNCHANGED << muxVars, brVars, lpVars, winCmd >>]_vars

C24_Witness ==
  \E s \in Sess :
    /\ sockMgr
    /\ ~tmuxMgr
    /\ hpc[s] = "returned"
    /\ hret[s] = ErrNoTmuxManager

\* C25: a session whose export line or whose scripts failed goes on to
\* its next step, returns only when its bridge has returned, and returns
\* nil.
C25_LateFailuresDoNotAbort ==
  /\ [](\A s \in Sess :
          envErr[s] \/ plugErr[s] =>
            /\ hpc[s] \in {"plugins", "wait", "returned"}
            /\ hpc[s] = "returned" =>
                 bpc[s] = "returned" /\ hret[s] = "nil")
  /\ [][\A s \in Sess :
          /\ hpc[s] = "env" /\ hpc'[s] # "env" => hpc'[s] = "plugins"
          /\ hpc[s] = "plugins" /\ hpc'[s] # "plugins" => hpc'[s] = "wait"
          /\ hpc[s] = "wait" /\ hpc'[s] # "wait" =>
               bpc[s] = "returned" /\ hret'[s] = "nil"]_vars

C25_Witness ==
  \E s \in Sess :
    /\ envErr[s]
    /\ plugErr[s]
    /\ hpc[s] = "returned"
    /\ hret[s] = "nil"
    /\ bpc[s] = "returned"

\* C26 as stated: when ExecuteMultiple has returned to executePlugins,
\* Execute was called on every script that follows a failed one, and the
\* calls were made in the configured order.
C26_RemainingScriptsRun ==
  ppc = "returned" /\ byShell =>
    /\ \A i, j \in DOMAIN scripts :
         j < i /\ scripts[j] # "ok" => \E n \in DOMAIN ran : ran[n] = i
    /\ \A m, n \in DOMAIN ran : m < n => ran[m] < ran[n]

\* the operations to which GenerateTempFilename has returned a path
Named == { p \in Ops : opc[p] \in {"named", "cleared", "bound", "closed"} }

\* C27 as stated: no two calls of GenerateTempFilename have returned the
\* same path.
C27_DistinctPaths ==
  \A p, q \in Named : p # q => oname[p] # oname[q]

\* C28 as stated: no step of an operation removes or replaces the socket
\* file of another operation whose listener is bound.
C28_OwnPathOnly ==
  [][dirExists' =>
       \A n \in Names :
         fkind[n] = "sock" /\ opc'[fowner[n]] = "bound" =>
           fkind'[n] = "sock" /\ fowner'[n] = fowner[n]]_vars

\* C29: every call of Cleanup returns nil, whether or not the directory
\* was there, and after a call the directory and the files in it are gone.
C29_CleanupIdempotent ==
  cleanups > 0 =>
    /\ cleanRet = "nil"
    /\ ~dirExists
    /\ \A n \in Names : fkind[n] = "none"

C29_Witness ==
  /\ cleanups = 2
  /\ cleanRet = "nil"
  /\ \E p \in Ops : opc[p] = "bound"

\* C30: whatever the interleaving of the calls of Close and of the two copy
\* goroutines, nothing panics, socketConn.Close() is called at most once,
\* and exactly once as soon as a call of Close has returned or a copy
\* goroutine has ended on a Session that has a connection; a call of Close
\* that began after another had returned returns nil, and at most one call
\* returns an error at all.
C30_ClosedExactlyOnce ==
  /\ ~panicked
  /\ sockCloses <= 1
  /\ hasConn /\ ( \/ \E k \in Closers : clpc[k] = "returned"
                  \/ \E g \in Copiers : copypc[g] = "done" )
       => sockCloses = 1
  /\ \A k \in Closers : clpc[k] = "returned" /\ clLate[k] => clret[k] = "nil"
  /\ Cardinality({ k \in Closers : clret[k] \notin {"none", "nil"} }) <= 1

C30_Witness ==
  /\ hasConn
  /\ sockCloses = 1
  /\ \A k \in Closers : clpc[k] = "returned"
  /\ \A g \in Copiers : copypc[g] = "done"
  /\ \E k \in Closers : clLate[k]
  /\ \E k \in Closers : ~clLate[k] /\ clret[k] = "close error"

\* ------------------------------------------------------- claims C31..C40

\* C31 as stated: no interleaving of the calls of singleConnListener.Close
\* and connWrapper.Close closes the channel twice, i.e. nothing panics.
C31_NoDoubleClose == ~slPanic

\* what the calls of Accept have returned: the connection first, EOF
\* afterwards, and EOF only with the channel closed
HandedOutOnce ==
  /\ aret # << >> => aret[1] = "conn"
  /\ \A i \in DOMAIN aret : i > 1 => aret[i] = "EOF"
  /\ Len(aret) > 1 => closedCh = "closed"

\* C32 as stated: the first Accept returns the connection, later ones only
\* EOF and only after a Close; and a later Accept that waits returns once
\* any Close of the listener or the wrapper has been completed.
C32_EOFAfterAnyClose ==
  /\ []HandedOutOnce
  /\ (apc = "wait" /\ \E k \in CloseCalls : xpc[k] = "done")
       ~> (apc # "wait" \/ slPanic)

\* C32, amended: the same, but a later Accept is only released by a Close
\* that began after the first Accept had returned; a Close of the listener
\* that came before leaves later Accepts blocked.
C32_EOFAfterLateClose ==
  /\ []HandedOutOnce
  /\ (apc = "wait" /\ \E k \in CloseCalls : xpc[k] = "done" /\ xLate[k])
       ~> (apc # "wait" \/ slPanic)

C32_Witness ==
  /\ Len(aret) = 3
  /\ aret[1] = "conn"
  /\ aret[3] = "EOF"
  /\ \E k \in CloseCalls : xpc[k] = "done" /\ xLate[k]
  /\ \E k \in CloseCalls : xpc[k] = "done" /\ ~xLate[k]

\* the start of an HTTP/1.x request line: a registered method token and
\* the space that ends it
RequestLineStart(p) == \E m \in httpMethods : IsPrefix(m \o <<" ">>, p)

C34_AutoIsExecAuto ==
  \A v, w \in Servers :
    cfgAuto[v] /\ cfgExec[v] = "" /\ ~cfgAuto[w] /\ cfgExec[w] = "auto" =>
      \A i \in DOMAIN passed[v] \cap DOMAIN passed[w] :
        passed[v][i] = passed[w][i]

C34_Witness ==
  \E v, w \in Servers :
    /\ cfgAuto[v] /\ cfgExec[v] = ""
    /\ ~cfgAuto[w] /\ cfgExec[w] = "auto"
    /\ Len(passed[v]) = MaxShellConns
    /\ Len(passed[w]) = MaxShellConns
    /\ passed[v][1] = << "auto" >>

\* the step in which CreateUnixListener of operation p returns
ListenReturns(p) == opc[p] = "cleared" /\ opc'[p] # "cleared"

\* the call returned a listener bound at its path
GotListener(p) ==
  /\ opc'[p] = "bound"
  /\ oret'[p] = "nil"
  /\ fkind'[oname[p]] = "sock"
  /\ fowner'[oname[p]] = p

\* the call returned no listener and the wrapped error
GotWrappedError(p) ==
  /\ opc'[p] = "failed"
  /\ Contains(oret'[p], "failed to create unix listener")
  /\ UNCHANGED << fkind, fowner >>

\* C36 as stated: CreateUnixListener returns a listener whenever the
\* parent directory exists, and the wrapped error and no listener when the
\* bind fails.
C36_BindsWheneverDirExists ==
  [][\A p \in Ops :
       ListenReturns(p) =>
         IF dirExists THEN GotListener(p) ELSE GotWrappedError(p)]_vars

\* C36, amended: the Remove takes away a file or a socket at the path but
\* not a directory that is not empty; the call returns a listener when the
\* parent directory exists and nothing is at the path at the bind, and the
\* wrapped error and no listener otherwise.
C36_BindsFreePath ==
  [][\A p \in Ops :
       /\ opc[p] = "named" /\ opc'[p] = "cleared" =>
            fkind'[oname[p]] = (IF fkind[oname[p]] = "dir" THEN "dir" ELSE "none")
       /\ ListenReturns(p) =>
            IF dirExists /\ fkind[oname[p]] = "none"
            THEN GotListener(p) ELSE GotWrappedError(p)]_vars

C36_Witness ==
  \E p, q \in Ops :
    /\ opc[p] = "bound"
    /\ fkind[oname[p]] = "sock"
    /\ fowner[oname[p]] = p
    /\ opc[q] = "failed"
    /\ dirExists
    /\ fkind[oname[q]] = "dir"
    /\ oret[q] = "failed to create unix listener: bind: address already in use"

\* C35: when a name of the list has no plugin file, ExecuteMultiple runs
\* no plugin at all and returns the error that names the first missing
\* one, with continueOnError set or not.
C35_ValidatedBeforeRun ==
  (\E i \in DOMAIN scripts : scripts[i] = "missing") =>
    /\ ran = << >>
    /\ ppc = "returned" =>
         pret = ErrPluginNotFound(PluginName(FirstMissing(scripts)))

C35_Witness ==
  /\ ppc = "returned"
  /\ contOnErr
  /\ ran = << >>
  /\ scripts = << "ok", "missing", "ok" >>
  /\ pret = "plugin 'p2' not found"

\* steps 1 to 4 of handleShellConnection succeeded: the managers are
\* there, the socket listens, the bridge runs and the window is created
SetupDone(s) == winCmd[s] /\ hpc[s] \in {"env", "plugins", "wait"}

\* the session of s is over and both its connections are closed
SessionEnded(s) ==
  /\ bpc[s] = "returned"
  /\ hpc[s] = "returned"
  /\ tclosed[s]
  /\ peer[s] = "none" \/ uclosed[s]

\* C37 as stated: once the setup of a shell session has succeeded and the
\* remote peer or the pane's client has disconnected, the session ends:
\* the bridge and the handler return and both connections are closed, also
\* when the pane's client had not yet connected.
C37_DisconnectEndsSession ==
  \A s \in ShellIds :
    (SetupDone(s) /\ (tcpRemote[s] \/ peer[s] = "closed")) ~> SessionEnded(s)

\* C38 as stated: the goroutine that runs BridgeConnections for a shell
\* connection ends on every path through handleShellConnection, also when
\* the handler has returned early because the window could not be made.
C38_BridgeGoroutineEnds ==
  \A s \in ShellIds :
    (bpc[s] # "idle" /\ hpc[s] = "returned") ~> (bpc[s] = "returned")

\* C39 as stated: a connection that was classified and sent to its
\* sub-listener is eventually taken by the loop of that sub-listener or
\* closed, whichever handlers the server was given.
C39_MatchedIsTakenOrClosed ==
  \A c \in 1..NumServed : (cst[c] = "matched") ~> (cst[c] # "matched")

\* a is b with some elements left out
RECURSIVE IsSubSeq(_, _)
IsSubSeq(a, b) ==
  IF a = << >> THEN TRUE
  ELSE IF b = << >> THEN FALSE
  ELSE IF Head(a) = Head(b) THEN IsSubSeq(Tail(a), Tail(b))
  ELSE IsSubSeq(a, Tail(b))

\* C40 as stated: the list worked out for a shell connection holds every
\* name of GetExecScripts, in order, with --auto set or not.
C40_ExecScriptsAllPassed ==
  \A v \in Servers :
    \A i \in DOMAIN passed[v] :
      IsSubSeq(GetExecScripts(cfgExec[v]), passed[v][i])

====
